---------------------------- MODULE Spec2Model ----------------------------
(***************************************************************************)
(* A model of the API puller's request orchestration engine:              *)
(*   utils/process_registry.py  ProcessorRegistry                         *)
(*   utils/oauth_handler.py     OAuthHandler                              *)
(*   utils/api_handler.py       APIHandler (call_single_api,              *)
(*                              call_nested_apis, _save_response)         *)
(*                                                                         *)
(* Python strings are sequences of one-character strings, so that         *)
(* `in`, str.replace and str.split work on characters as they do in the   *)
(* code (a token that no character-level operation looks into, such as a  *)
(* header name, is written as one element).  Python values are tagged     *)
(* records [t, v]; a dict is the ordered sequence of its [k, v] entries   *)
(* (dicts iterate in insertion order).                                     *)
(***************************************************************************)
EXTENDS Integers, Sequences, FiniteSets, TLC

(***************************************************************************)
(* Bounds of the model.                                                    *)
(***************************************************************************)
\* the longest child_apis list of a nested entry
MaxChildren == 2
\* the most get_token calls and clock advances of a run of SpecOAuth
MaxSteps == 5
\* the most files the output processors write in a run of SpecRegistry
MaxWrites == 1
\* the most seconds that pass during a run of SpecRun
MaxSeconds == 1

(***************************************************************************)
(* Python values.                                                          *)
(***************************************************************************)
None == [t |-> "none", v |-> 0]
PyInt(n) == [t |-> "int", v |-> n]
PyStr(s) == [t |-> "str", v |-> s]
PyBool(b) == [t |-> "bool", v |-> b]
PyList(s) == [t |-> "list", v |-> s]
PyDict(s) == [t |-> "dict", v |-> s]
\* one entry of a dict
KV(k, x) == [k |-> k, v |-> x]

IsDict(x) == x.t = "dict"
IsList(x) == x.t = "list"
IsStr(x) == x.t = "str"

\* key in d
HasKey(d, k) == \E i \in 1..Len(d.v) : d.v[i].k = k
\* d[key]
DictGet(d, k) == d.v[CHOOSE i \in 1..Len(d.v) : d.v[i].k = k].v

(***************************************************************************)
(* Python str operations, on sequences of characters.                      *)
(***************************************************************************)
\* sub in s
Contains(s, sub) ==
    \E i \in 1..(Len(s) - Len(sub) + 1) : SubSeq(s, i, i + Len(sub) - 1) = sub

\* s.replace(old, new), old not empty: left to right, non-overlapping
RECURSIVE Replace(_, _, _)
Replace(s, old, new) ==
    IF Len(s) < Len(old) THEN s
    ELSE IF SubSeq(s, 1, Len(old)) = old
         THEN new \o Replace(SubSeq(s, Len(old) + 1, Len(s)), old, new)
         ELSE <<Head(s)>> \o Replace(Tail(s), old, new)

\* s.split(sep) for a one-character separator: the list of the parts
RECURSIVE Split(_, _)
Split(s, sep) ==
    IF \A i \in 1..Len(s) : s[i] # sep THEN <<s>>
    ELSE LET i == CHOOSE j \in 1..Len(s) :
                    s[j] = sep /\ \A m \in 1..(j - 1) : s[m] # sep
         IN  <<SubSeq(s, 1, i - 1)>> \o Split(SubSeq(s, i + 1, Len(s)), sep)

Digits == <<"0", "1", "2", "3", "4", "5", "6", "7", "8", "9">>
DigitValue(c) == (CHOOSE i \in 1..10 : Digits[i] = c) - 1

\* part.isdigit()
IsDigit(s) == Len(s) > 0 /\ \A i \in 1..Len(s) : \E d \in 1..10 : Digits[d] = s[i]

\* int(part) for an all-digit part
RECURSIVE ParseInt(_)
ParseInt(s) ==
    IF Len(s) = 0 THEN 0
    ELSE 10 * ParseInt(SubSeq(s, 1, Len(s) - 1)) + DigitValue(s[Len(s)])

\* str(n) for an int n >= 0
RECURSIVE IntStr(_)
IntStr(n) ==
    IF n < 10 THEN <<Digits[n + 1]>>
    ELSE IntStr(n \div 10) \o <<Digits[(n % 10) + 1]>>

RECURSIVE Repr(_)
RECURSIVE ReprItems(_)
RECURSIVE ReprEntries(_)
\* repr(x): what str() shows of a value nested in a list or dict
Repr(x) ==
    CASE x.t = "str" -> <<"'">> \o x.v \o <<"'">>
      [] x.t = "int" -> IntStr(x.v)
      [] x.t = "none" -> <<"N", "o", "n", "e">>
      [] x.t = "bool" -> IF x.v THEN <<"T", "r", "u", "e">>
                                ELSE <<"F", "a", "l", "s", "e">>
      [] x.t = "list" -> <<"[">> \o ReprItems(x.v) \o <<"]">>
      [] x.t = "dict" -> <<"{">> \o ReprEntries(x.v) \o <<"}">>
      [] x.t = "response" -> <<"<Response [">> \o IntStr(x.v.status_code) \o <<"]>">>
\* ", ".join(repr(e) for e in xs)
ReprItems(xs) ==
    IF Len(xs) = 0 THEN <<>>
    ELSE IF Len(xs) = 1 THEN Repr(Head(xs))
    ELSE Repr(Head(xs)) \o <<",", " ">> \o ReprItems(Tail(xs))
\* ", ".join(repr(k) + ": " + repr(v)) over the entries of a dict
ReprEntries(es) ==
    IF Len(es) = 0 THEN <<>>
    ELSE LET h == Repr(PyStr(Head(es).k)) \o <<":", " ">> \o Repr(Head(es).v)
         IN  IF Len(es) = 1 THEN h ELSE h \o <<",", " ">> \o ReprEntries(Tail(es))

\* str(x)
Str(x) == IF x.t = "str" THEN x.v ELSE Repr(x)


\* json.dumps(x, separators=(',', ':'))
RECURSIVE JsonDumps(_)
RECURSIVE DumpItems(_)
RECURSIVE DumpEntries(_)
JsonDumps(x) ==
    CASE x.t = "str" -> <<"\"">> \o x.v \o <<"\"">>
      [] x.t = "int" -> IntStr(x.v)
      [] x.t = "none" -> <<"n", "u", "l", "l">>
      [] x.t = "bool" -> IF x.v THEN <<"t", "r", "u", "e">>
                                ELSE <<"f", "a", "l", "s", "e">>
      [] x.t = "list" -> <<"[">> \o DumpItems(x.v) \o <<"]">>
      [] x.t = "dict" -> <<"{">> \o DumpEntries(x.v) \o <<"}">>
DumpItems(xs) ==
    IF Len(xs) = 0 THEN <<>>
    ELSE IF Len(xs) = 1 THEN JsonDumps(Head(xs))
    ELSE JsonDumps(Head(xs)) \o <<",">> \o DumpItems(Tail(xs))
DumpEntries(es) ==
    IF Len(es) = 0 THEN <<>>
    ELSE LET h == JsonDumps(PyStr(Head(es).k)) \o <<":">> \o JsonDumps(Head(es).v)
         IN  IF Len(es) = 1 THEN h ELSE h \o <<",">> \o DumpEntries(Tail(es))

\* d with d[k] = x: an existing key keeps its place, a new one goes last
DictSet(d, k, x) ==
    IF HasKey(d, k)
    THEN PyDict([i \in 1..Len(d.v) |-> IF d.v[i].k = k THEN KV(k, x) ELSE d.v[i]])
    ELSE PyDict(Append(d.v, KV(k, x)))

\* d.update(other)
RECURSIVE DictUpdate(_, _)
DictUpdate(d, other) ==
    IF Len(other.v) = 0 THEN d
    ELSE DictUpdate(DictSet(d, Head(other.v).k, Head(other.v).v), PyDict(Tail(other.v)))

\* the entries of d whose key is in the list fields, in d's order
RECURSIVE FilterKeys(_, _)
FilterKeys(es, fields) ==
    IF Len(es) = 0 THEN <<>>
    ELSE (IF \E i \in 1..Len(fields) : fields[i] = PyStr(Head(es).k)
          THEN <<Head(es)>> ELSE <<>>) \o FilterKeys(Tail(es), fields)

(***************************************************************************)
(* HTTP.  A transport call ends in an exception or in a response; a       *)
(* response has a status code, a raw body (text) and, when the body       *)
(* parses, the parsed body: response.json() raises ValueError otherwise.  *)
(***************************************************************************)
NoJson == [t |-> "nojson", v |-> 0]
Response(status, text, json) ==
    [t |-> "response", v |-> [status_code |-> status, text |-> text, json |-> json]]
\* a response whose body is the JSON document x
JsonResponse(status, x) == Response(status, JsonDumps(x), x)
\* a response whose body is not JSON
TextResponse(status, text) == Response(status, text, NoJson)
TransportError == [t |-> "exception", v |-> 0]

(***************************************************************************)
(* What a call of a registered function does: it returns a value          *)
(* ("ret"), returns None ("none") or raises an Exception ("raise").       *)
(***************************************************************************)
Ret(x) == [k |-> "ret", val |-> x]
RetNone == [k |-> "none", val |-> None]
Raise == [k |-> "raise", val |-> None]

(***************************************************************************)
(* An API call configuration (api_config).  headers is a dict or None    *)
(* (no "headers" key); a stage (preprocess, postprocess, output) is        *)
(* [name, args], name "" when the stage is not configured.                 *)
(***************************************************************************)
NoStage == [name |-> "", args |-> PyDict(<<>>)]
Stage(name, args) == [name |-> name, args |-> PyDict(args)]
ApiConfig(url, headers, pre, post, out) ==
    [url |-> url, method |-> PyStr(<<"GET">>), headers |-> headers, interval |-> None,
     items_path |-> <<>>, preprocess |-> pre, postprocess |-> post, output |-> out]

(***************************************************************************)
(* utils/processors.py: the built-in processors, and plug-ins that fail.   *)
(***************************************************************************)
\* preprocess_add_headers: the copy is shallow, so an existing headers dict
\* is updated in place
preprocess_add_headers(api_config, kwargs) ==
    LET headers == IF HasKey(kwargs, <<"headers">>)
                   THEN DictGet(kwargs, <<"headers">>) ELSE PyDict(<<>>)
        old == IF api_config.headers = None THEN PyDict(<<>>) ELSE api_config.headers
    IN  IF ~IsDict(headers) THEN Ret(api_config)
        ELSE Ret([api_config EXCEPT !.headers = DictUpdate(old, headers)])

\* preprocess_template_url
RECURSIVE SubstituteAll(_, _)
SubstituteAll(url, es) ==
    IF Len(es) = 0 THEN url
    ELSE LET placeholder == <<"{">> \o Head(es).k \o <<"}">>
         IN  SubstituteAll(IF Contains(url, placeholder)
                           THEN Replace(url, placeholder, Str(Head(es).v))
                           ELSE url, Tail(es))
preprocess_template_url(api_config, kwargs) ==
    LET variables == IF HasKey(kwargs, <<"variables">>)
                     THEN DictGet(kwargs, <<"variables">>) ELSE PyDict(<<>>)
    IN  IF ~IsDict(variables) THEN Ret(api_config)
        ELSE Ret([api_config EXCEPT !.url = SubstituteAll(@, variables.v)])

\* the api_config argument as a preprocessor leaves it: the built-ins work on
\* api_config.copy(), which shares the nested dicts with api_config
PreLeaves(fn, api_config, kwargs) ==
    IF fn = "add_headers" /\ api_config.headers # None
       /\ preprocess_add_headers(api_config, kwargs).k = "ret"
    THEN preprocess_add_headers(api_config, kwargs).val
    ELSE api_config

\* the preprocessor functions: two built-ins, one that raises, one that
\* returns None, one that returns a configuration of another URL with a
\* postprocessor and an output sink of its own, one that returns a list
PreFns == {"add_headers", "template_url", "pre_raises", "pre_none", "pre_reroutes",
           "pre_returns_list"}
CallPre(fn, api_config, kwargs) ==
    CASE fn = "add_headers" -> preprocess_add_headers(api_config, kwargs)
      [] fn = "template_url" -> preprocess_template_url(api_config, kwargs)
      [] fn = "pre_raises" -> Raise
      [] fn = "pre_none" -> RetNone
      [] fn = "pre_reroutes" ->
            Ret([api_config EXCEPT
                    !.url = <<"/", "r", "/", "s">>,
                    !.postprocess = Stage("flatten_json", <<>>),
                    !.output = Stage("sink_sends", <<>>)])
      [] fn = "pre_returns_list" -> Ret(PyList(<<>>))

\* postprocess_filter_response
postprocess_filter_response(response, kwargs) ==
    LET data == response.v.json
        fields == IF HasKey(kwargs, <<"fields">>)
                  THEN DictGet(kwargs, <<"fields">>) ELSE PyList(<<>>)
    IN  IF data = NoJson THEN RetNone
        ELSE IF Len(fields.v) = 0 THEN Ret(data)
        ELSE IF IsDict(data) THEN Ret(PyDict(FilterKeys(data.v, fields.v)))
        ELSE IF IsList(data)
             THEN Ret(PyList([i \in 1..Len(data.v) |->
                        IF IsDict(data.v[i])
                        THEN PyDict(FilterKeys(data.v[i].v, fields.v))
                        ELSE data.v[i]]))
        ELSE Ret(data)

\* postprocess_flatten_json (add_metadata not set)
postprocess_flatten_json(response, kwargs) ==
    IF response.v.json = NoJson THEN RetNone
    ELSE Ret(PyDict(<<KV(<<"__flatten_json_output">>,
                         PyStr(JsonDumps(response.v.json)))>>))

\* postprocess_split_json_array, for a one-segment array_path
postprocess_split_json_array(response, kwargs) ==
    LET data == response.v.json
        array_path == IF HasKey(kwargs, <<"array_path">>)
                      THEN DictGet(kwargs, <<"array_path">>) ELSE None
    IN  IF data = NoJson \/ array_path = None \/ ~IsStr(array_path) THEN RetNone
        ELSE IF Len(array_path.v) = 0 THEN RetNone
        ELSE IF ~IsDict(data) THEN RetNone
        ELSE IF ~HasKey(data, array_path.v) THEN RetNone
        ELSE IF ~IsList(DictGet(data, array_path.v)) THEN RetNone
        ELSE LET array_data == DictGet(data, array_path.v).v
             IN  Ret(PyDict(<<KV(<<"__split_json_output">>,
                        PyList([i \in 1..Len(array_data) |->
                                    PyStr(JsonDumps(array_data[i]))]))>>))

\* the postprocessor functions: three built-ins and one that raises
PostFns == {"filter_response", "flatten_json", "split_json_array", "post_raises"}
CallPost(fn, response, kwargs) ==
    CASE fn = "filter_response" -> postprocess_filter_response(response, kwargs)
      [] fn = "flatten_json" -> postprocess_flatten_json(response, kwargs)
      [] fn = "split_json_array" -> postprocess_split_json_array(response, kwargs)
      [] fn = "post_raises" -> Raise


(***************************************************************************)
(* The state the engine works on, threaded through the operators:         *)
(*   files         the logs directory, file name -> content                *)
(*   log           the trace of what was done, in order (a history)        *)
(*   token, token_expiry   the OAuthHandler's cache                        *)
(* and the clock `now` (seconds), read where the code reads                *)
(* datetime.now().                                                         *)
(***************************************************************************)
Event(ev, url, name, data) ==
    [ev |-> ev, url |-> url, name |-> name, data |-> data, file |-> <<>>,
     err |-> FALSE, resp |-> None]
Logged(S, e) == [S EXCEPT !.log = Append(@, e)]

\* open(file_path, 'w') and the writes: the file is created or overwritten
WriteFile(files, name, content) ==
    [f \in DOMAIN files \cup {name} |-> IF f = name THEN content ELSE files[f]]

\* "\n".join(lines)
RECURSIVE JoinLines(_)
JoinLines(lines) ==
    IF Len(lines) = 0 THEN <<>>
    ELSE IF Len(lines) = 1 THEN Head(lines).v
    ELSE Head(lines).v \o <<"\n">> \o JoinLines(Tail(lines))

\* the text written for response_data: json.dump(indent=2) is kept as the
\* pair ("json", value), every other branch writes the characters
FileContent(response_data, is_error, status_code) ==
    IF IsDict(response_data)
    THEN IF HasKey(response_data, <<"__flatten_json_output">>)
         THEN [fmt |-> "text",
               data |-> PyStr(DictGet(response_data, <<"__flatten_json_output">>).v)]
         ELSE IF HasKey(response_data, <<"__split_json_output">>)
         THEN [fmt |-> "text",
               data |-> PyStr(JoinLines(DictGet(response_data, <<"__split_json_output">>).v))]
         ELSE [fmt |-> "json", data |-> response_data]
    ELSE IF IsStr(response_data)
    THEN [fmt |-> "text", data |-> response_data]
    ELSE IF is_error /\ status_code # 0
    THEN [fmt |-> "text",
          data |-> PyStr(<<"Status code: ">> \o IntStr(status_code) \o <<"\n">>
                         \o <<"Response: ">> \o Str(response_data) \o <<"\n">>)]
    ELSE [fmt |-> "text", data |-> PyStr(Str(response_data))]

\* the artifact's name: <error_><last URL segment>_<timestamp>.log
FileName(endpoint, is_error, now) ==
    LET parts == Split(endpoint, "/")
        endpoint_name == [i \in 1..Len(parts[Len(parts)]) |->
                            IF parts[Len(parts)][i] \in {"?", "&"} THEN "_"
                            ELSE parts[Len(parts)][i]]
    IN  (IF is_error THEN <<"error_">> ELSE <<>>)
        \o endpoint_name \o <<"_">> \o IntStr(now) \o <<".log">>

\* APIHandler._save_response
SaveResponse(S, now, endpoint, response_data, is_error, status_code) ==
    LET filename == FileName(endpoint, is_error, now)
        content == FileContent(response_data, is_error, status_code)
    IN  [S EXCEPT !.files = WriteFile(@, filename, content),
                  !.log = Append(@, [ev |-> "save", url |-> endpoint, name |-> "",
                                     data |-> response_data, file |-> filename,
                                     err |-> is_error, resp |-> None])]

(***************************************************************************)
(* utils/process_registry.py                                               *)
(***************************************************************************)
\* ProcessorRegistry.__init__
EmptyRegistry ==
    [preprocessors |-> <<>>, postprocessors |-> <<>>, output_processors |-> <<>>]

\* as Registered, with a name that is taken left to the function it has
RegisteredKeepsFirst(m, name, fn) ==
    [n \in DOMAIN m \cup {name} |-> IF n \in DOMAIN m THEN m[n] ELSE fn]

\* m[name] = processor_func
Registered(m, name, fn) ==
    [n \in DOMAIN m \cup {name} |-> IF n = name THEN fn ELSE m[n]]

register_preprocessor(reg, name, fn) ==
    [reg EXCEPT !.preprocessors = Registered(@, name, fn)]
register_postprocessor(reg, name, fn) ==
    [reg EXCEPT !.postprocessors = Registered(@, name, fn)]
register_output_processor(reg, name, fn) ==
    [reg EXCEPT !.output_processors = Registered(@, name, fn)]

\* the run_ methods without their except clause
CaughtNothing(result, fallback) == result

\* the except clause of the run_ methods: what the function raised is
\* logged and the fallback is returned; a None result is the fallback too
Caught(result, fallback) ==
    IF result.k = "ret" THEN result ELSE Ret(fallback)

\* run_preprocessor without its test of the name and its try block
run_preprocessorUnguarded(reg, name, api_config, kwargs) ==
    IF name \notin DOMAIN reg.preprocessors THEN Raise
    ELSE CallPre(reg.preprocessors[name], api_config, kwargs)

\* run_preprocessor, as a call outcome [k, val]
run_preprocessor(reg, name, api_config, kwargs) ==
    IF name \notin DOMAIN reg.preprocessors THEN Ret(api_config)
    ELSE Caught(CallPre(reg.preprocessors[name], api_config, kwargs), api_config)

\* run_postprocessor
run_postprocessor(reg, name, response, kwargs) ==
    IF name \notin DOMAIN reg.postprocessors THEN Ret(response)
    ELSE Caught(CallPost(reg.postprocessors[name], response, kwargs), response)

\* output_jsonl_file (no filename or directory argument): a dict or a list
\* is written, one JSON document per line; anything else is refused
output_jsonl_file(data, endpoint, kwargs, S, now) ==
    LET parts == Split(endpoint, "/")
        endpoint_name == [i \in 1..Len(parts[Len(parts)]) |->
                            IF parts[Len(parts)][i] \in {"?", "&"} THEN "_"
                            ELSE parts[Len(parts)][i]]
        filename == endpoint_name \o <<"_">> \o IntStr(now) \o <<".jsonl">>
        lines == IF IsDict(data) THEN <<PyStr(JsonDumps(data))>>
                 ELSE [i \in 1..Len(data.v) |-> PyStr(JsonDumps(data.v[i]))]
    IN  IF IsDict(data) \/ IsList(data)
        THEN [k |-> "ret", val |-> PyBool(TRUE),
              S |-> [S EXCEPT
                        !.files = WriteFile(@, filename,
                            [fmt |-> "text", data |-> PyStr(JoinLines(lines) \o <<"\n">>)]),
                        !.log = Append(@, [ev |-> "write", url |-> endpoint, name |-> "",
                                           data |-> data, file |-> filename,
                                           err |-> FALSE, resp |-> None])]]
        ELSE [k |-> "ret", val |-> PyBool(FALSE), S |-> S]

\* the output functions: a built-in, and plug-ins: one that sends the data
\* on and returns True, and ones that raise, return False and return None
OutFns == {"jsonl_file", "sink_sends", "sink_raises", "sink_false", "sink_none"}
CallOut(fn, data, endpoint, kwargs, S, now) ==
    CASE fn = "jsonl_file" -> output_jsonl_file(data, endpoint, kwargs, S, now)
      [] fn = "sink_sends" -> [k |-> "ret", val |-> PyBool(TRUE),
                               S |-> Logged(S, Event("sent", endpoint, "", data))]
      [] fn = "sink_raises" -> [k |-> "raise", val |-> None, S |-> S]
      [] fn = "sink_false" -> [k |-> "ret", val |-> PyBool(FALSE), S |-> S]
      [] fn = "sink_none" -> [k |-> "none", val |-> None, S |-> S]

\* run_output_processor without its except clause
CaughtOutNothing(result, S) == result

\* the except clause of run_output_processor: False, and the state as the
\* call was entered
CaughtOut(result, S) ==
    IF result.k = "raise" THEN [k |-> "ret", val |-> PyBool(FALSE), S |-> S]
    ELSE [k |-> "ret", val |-> result.val, S |-> result.S]

\* run_output_processor
run_output_processor(reg, name, data, endpoint, kwargs, S, now) ==
    IF name \notin DOMAIN reg.output_processors
    THEN [k |-> "ret", val |-> PyBool(FALSE), S |-> S]
    ELSE CaughtOut(CallOut(reg.output_processors[name], data, endpoint, kwargs, S, now), S)

\* bool(x)
Truthy(x) ==
    CASE x.t = "none" -> FALSE
      [] x.t = "bool" -> x.v
      [] x.t = "int" -> x.v # 0
      [] x.t \in {"str", "list", "dict"} -> Len(x.v) > 0
      [] OTHER -> TRUE

(***************************************************************************)
(* utils/oauth_handler.py.  A token request ends in a 200 response         *)
(* ("ok": access_token a str or None when the key is missing, expires_in   *)
(* an int or None when the key is missing), in another status ("status")   *)
(* or in an exception ("exc").                                             *)
(***************************************************************************)
\* timedelta(hours=4), in seconds
RefreshMargin == 4 * 3600
\* token_data.get('expires_in', 3600)
DefaultExpiresIn == 3600

TokenOk(access_token, expires_in) ==
    [k |-> "ok", access_token |-> access_token, expires_in |-> expires_in]
TokenStatus == [k |-> "status", access_token |-> None, expires_in |-> None]
TokenExc == [k |-> "exc", access_token |-> None, expires_in |-> None]

\* as RequestNewToken, with the cached token and expiry left as they are
\* when the request fails
RequestNewTokenKeepsCache(S, now, rf) ==
    LET S1 == Logged(S, Event("refresh", <<>>, rf.k, rf.expires_in))
    IN  IF rf.k = "ok"
        THEN [S1 EXCEPT !.token = rf.access_token,
                        !.token_expiry =
                            PyInt(now + (IF rf.expires_in = None THEN DefaultExpiresIn
                                         ELSE rf.expires_in.v))]
        ELSE S1

\* OAuthHandler._request_new_token; the history keeps the expires_in of the
\* token response
RequestNewToken(S, now, rf) ==
    LET S1 == Logged(S, Event("refresh", <<>>, rf.k, rf.expires_in))
    IN  IF rf.k = "ok"
        THEN [S1 EXCEPT !.token = rf.access_token,
                        !.token_expiry =
                            PyInt(now + (IF rf.expires_in = None THEN DefaultExpiresIn
                                         ELSE rf.expires_in.v))]
        ELSE [S1 EXCEPT !.token = None, !.token_expiry = None]

\* the test of get_token without the margin: no token, no expiry, or expired
NeedsRefreshAtExpiry(S, now) ==
    \/ S.token = None
    \/ S.token_expiry = None
    \/ now >= S.token_expiry.v

\* the test of get_token with > for >=
NeedsRefreshInsideMargin(S, now) ==
    \/ S.token = None
    \/ S.token_expiry = None
    \/ now + RefreshMargin > S.token_expiry.v

\* the test of get_token: no token, no expiry, or expiring within the margin
NeedsRefresh(S, now) ==
    \/ S.token = None
    \/ S.token_expiry = None
    \/ now + RefreshMargin >= S.token_expiry.v

\* OAuthHandler.get_token: the state after it and the token it returns
GetToken(S, now, rf) ==
    LET S1 == IF NeedsRefresh(S, now) THEN RequestNewToken(S, now, rf) ELSE S
    IN  [S |-> S1, token |-> S1.token]

(***************************************************************************)
(* utils/api_handler.py                                                    *)
(***************************************************************************)
\* as PrepareHeaders, without the test of line 41
PrepareHeadersAnyToken(S, now, auth, rf) ==
    IF auth.type = "oauth"
    THEN [S |-> GetToken(S, now, rf).S,
          headers |-> PyDict(<<KV(<<"Content-Type">>, PyStr(<<"application/json">>)),
                               KV(<<"Authorization">>,
                                  PyStr(<<"Bearer ">> \o Str(GetToken(S, now, rf).token)))>>)]
    ELSE [S |-> S,
          headers |-> PyDict(<<KV(<<"Content-Type">>, PyStr(<<"application/json">>))>>)]

\* APIHandler._prepare_headers
PrepareHeaders(S, now, auth, rf) ==
    LET base == PyDict(<<KV(<<"Content-Type">>, PyStr(<<"application/json">>))>>)
    IN  IF auth.type = "oauth"
        THEN LET g == GetToken(S, now, rf)
             IN  [S |-> g.S,
                  headers |-> IF Truthy(g.token)
                              THEN DictSet(base, <<"Authorization">>,
                                           PyStr(<<"Bearer ">> \o g.token.v))
                              ELSE base]
        ELSE IF auth.type = "bearer"
        THEN [S |-> S,
              headers |-> DictSet(base, <<"Authorization">>,
                                  PyStr(<<"Bearer ">> \o Str(auth.token)))]
        ELSE [S |-> S, headers |-> base]

\* str.upper() of a method name
Upper(m) ==
    CASE m = <<"get">> -> <<"GET">>
      [] m = <<"post">> -> <<"POST">>
      [] OTHER -> m

\* what call_single_api hands back: the value returned (a response or
\* None), whether an exception left the method instead, the state after it,
\* and the api_config argument as the call leaves it
Outcome(ret, exc, S, arg) == [ret |-> ret, exc |-> exc, S |-> S, arg |-> arg]

\* as Persisted, with the response handed back holding the processed data
\* in place of the body the transport gave
PersistedReturnsProcessed(url, response, processed_data, sunk, now, arg) ==
    LET handed == IF IsDict(processed_data) \/ IsList(processed_data)
                  THEN [response EXCEPT !.v.json = processed_data]
                  ELSE response
    IN  IF sunk.k = "raise" THEN Outcome(None, FALSE, sunk.S, arg)
        ELSE IF Truthy(sunk.val) THEN Outcome(handed, FALSE, sunk.S, arg)
        ELSE Outcome(handed, FALSE,
                     SaveResponse(sunk.S, now, url, processed_data, FALSE, 0), arg)

\* as Persisted, without the return of lines 211-213
PersistedAlways(url, response, processed_data, sunk, now, arg) ==
    IF sunk.k = "raise" THEN Outcome(None, FALSE, sunk.S, arg)
    ELSE Outcome(response, FALSE,
                 SaveResponse(sunk.S, now, url, processed_data, FALSE, 0), arg)

\* lines 215-218: the default persistence, unless the output processor
\* (sunk, its outcome) handled the data; an exception ends in line 220
Persisted(url, response, processed_data, sunk, now, arg) ==
    IF sunk.k = "raise" THEN Outcome(None, FALSE, sunk.S, arg)
    ELSE IF Truthy(sunk.val) THEN Outcome(response, FALSE, sunk.S, arg)
    ELSE Outcome(response, FALSE,
                 SaveResponse(sunk.S, now, url, processed_data, FALSE, 0), arg)

\* lines 202-213: the output processor, if one is configured
Sunk(reg, output, url, processed_data, S, now) ==
    IF output.name # ""
    THEN run_output_processor(reg, output.name, processed_data, url, output.args,
                              Logged(S, Event("sink", url, output.name, processed_data)),
                              now)
    ELSE [k |-> "ret", val |-> PyBool(FALSE), S |-> S]

\* lines 202-218
Persist(reg, api_config, url, response, processed, now, arg) ==
    IF processed.k = "raise" THEN Outcome(None, FALSE, processed.S, arg)
    ELSE Persisted(url, response, processed.val,
                   Sunk(reg, api_config.output, url, processed.val, processed.S, now),
                   now, arg)

\* lines 188-196: the postprocessor's result, or the body parsed again
\* when the result is None
PostResult(post_result, response, S) ==
    IF post_result.k = "raise" THEN [k |-> "raise", val |-> None, S |-> S]
    ELSE IF post_result.val # None THEN [k |-> "ret", val |-> post_result.val, S |-> S]
    ELSE [k |-> "ret", val |-> response.v.json, S |-> S]

\* lines 169-200: the data to persist for a response with status < 400; the
\* postprocessor runs inside the try block that starts with response.json()
Processed(reg, postprocess, url, response, S) ==
    IF response.v.json = NoJson
    THEN [k |-> "ret", val |-> PyStr(response.v.text), S |-> S]
    ELSE IF postprocess.name # ""
    THEN PostResult(run_postprocessor(reg, postprocess.name, response, postprocess.args),
                    response,
                    Logged(S, Event("post", url, postprocess.name, response)))
    ELSE [k |-> "ret", val |-> response.v.json, S |-> S]

\* as Respond, without the return of lines 165-167
RespondAnyStatus(reg, api_config, tr, S, now, arg) ==
    IF tr = TransportError THEN Outcome(None, FALSE, S, arg)
    ELSE Persist(reg, api_config, api_config.url, tr,
                 Processed(reg, api_config.postprocess, api_config.url, tr, S),
                 now, arg)

\* lines 161-218: what is done with what the transport gave
Respond(reg, api_config, tr, S, now, arg) ==
    IF tr = TransportError THEN Outcome(None, FALSE, S, arg)
    ELSE IF tr.v.status_code >= 400
    THEN Outcome(tr, FALSE,
                 SaveResponse(S, now, api_config.url, PyStr(tr.v.text), TRUE,
                              tr.v.status_code),
                 arg)
    ELSE Persist(reg, api_config, api_config.url, tr,
                 Processed(reg, api_config.postprocess, api_config.url, tr, S),
                 now, arg)

\* as Sent, with the request sent a second time after a transport failure
SentWithRetry(api_config, prepared, tr) ==
    LET e == [ev |-> "transport", url |-> api_config.url,
              name |-> Upper(api_config.method.v)[1],
              data |-> DictUpdate(prepared.headers,
                                  IF api_config.headers = None THEN PyDict(<<>>)
                                  ELSE api_config.headers),
              file |-> <<>>, err |-> tr = TransportError, resp |-> tr]
    IN  IF tr = TransportError THEN Logged(Logged(prepared.S, e), e)
        ELSE Logged(prepared.S, e)

\* lines 142-159: the headers are merged and the request is sent
Sent(api_config, prepared, tr) ==
    Logged(prepared.S,
           [ev |-> "transport", url |-> api_config.url,
            name |-> Upper(api_config.method.v)[1],
            data |-> DictUpdate(prepared.headers,
                                IF api_config.headers = None THEN PyDict(<<>>)
                                ELSE api_config.headers),
            file |-> <<>>, err |-> tr = TransportError, resp |-> tr])

\* lines 135-222: the call, for the configuration the preprocessor left;
\* pre is [k, val, S, arg]
Request(reg, auth, pre, tr, rf, now) ==
    IF pre.k = "raise" THEN Outcome(None, TRUE, pre.S, pre.arg)
    ELSE IF "method" \notin DOMAIN pre.val THEN Outcome(None, TRUE, pre.S, pre.arg)
    ELSE IF ~IsStr(pre.val.method) THEN Outcome(None, TRUE, pre.S, pre.arg)
    ELSE Respond(reg, pre.val, tr,
                 Sent(pre.val, PrepareHeaders(pre.S, now, auth, rf), tr),
                 now, pre.arg)

\* as PreOutcome, with what run_preprocessor returned dropped and the call
\* going on with the api_config argument
PreOutcomeInputKept(result, S, arg) ==
    [k |-> "ret", val |-> arg, S |-> S, arg |-> arg]

\* line 133: api_config is what run_preprocessor returned
PreOutcome(result, S, arg) ==
    [k |-> result.k, val |-> result.val, S |-> S, arg |-> arg]

\* as Preprocessed, with the configured preprocessor left out
PreprocessedSkipped(reg, api_config, S) ==
    [k |-> "ret", val |-> api_config, S |-> S, arg |-> api_config]

\* lines 125-133: the preprocessor, if one is configured
Preprocessed(reg, api_config, S) ==
    IF api_config.preprocess.name # ""
    THEN PreOutcome(run_preprocessor(reg, api_config.preprocess.name, api_config,
                                     api_config.preprocess.args),
                    Logged(S, Event("pre", api_config.url, api_config.preprocess.name,
                                    None)),
                    IF api_config.preprocess.name \in DOMAIN reg.preprocessors
                    THEN PreLeaves(reg.preprocessors[api_config.preprocess.name],
                                   api_config, api_config.preprocess.args)
                    ELSE api_config)
    ELSE [k |-> "ret", val |-> api_config, S |-> S, arg |-> api_config]

\* APIHandler.call_single_api, with tr what the transport does for this
\* call and rf what the token endpoint does if it is asked
CallSingleApi(reg, auth, api_config, tr, rf, S, now) ==
    Request(reg, auth, Preprocessed(reg, api_config, S), tr, rf, now)

\* as Walk, with a segment that selects nothing passed over instead of
\* ending the walk
RECURSIVE WalkPassesOver(_, _)
WalkPassesOver(target_data, parts) ==
    IF Len(parts) = 0 THEN [ok |-> TRUE, target |-> target_data]
    ELSE LET part == Head(parts)
         IN  IF IsDict(target_data) /\ HasKey(target_data, part)
             THEN WalkPassesOver(DictGet(target_data, part), Tail(parts))
             ELSE IF IsList(target_data) /\ IsDigit(part)
                     /\ ParseInt(part) < Len(target_data.v)
             THEN WalkPassesOver(target_data.v[ParseInt(part) + 1], Tail(parts))
             ELSE WalkPassesOver(target_data, Tail(parts))

\* lines 250-271: the walk along items_path; ok is FALSE where the code logs
\* an error and returns
RECURSIVE Walk(_, _)
Walk(target_data, parts) ==
    IF Len(parts) = 0 THEN [ok |-> TRUE, target |-> target_data]
    ELSE LET part == Head(parts)
         IN  IF Len(part) = 0 THEN Walk(target_data, Tail(parts))
             ELSE IF IsDict(target_data) /\ HasKey(target_data, part)
             THEN Walk(DictGet(target_data, part), Tail(parts))
             ELSE IF IsList(target_data) /\ IsDigit(part)
             THEN LET idx == ParseInt(part)
                  IN  IF 0 <= idx /\ idx < Len(target_data.v)
                      THEN Walk(target_data.v[idx + 1], Tail(parts))
                      ELSE [ok |-> FALSE, target |-> None]
             ELSE [ok |-> FALSE, target |-> None]

ResolveItemsPath(parent_data, items_path) ==
    IF Len(items_path) > 0 THEN Walk(parent_data, Split(items_path, "."))
    ELSE [ok |-> TRUE, target |-> parent_data]

\* ItemsToProcess with the key of a wrapped scalar always "value"
ItemsToProcessValueKey(target_data, items_path) ==
    IF IsList(target_data) THEN target_data.v
    ELSE IF IsDict(target_data) THEN <<target_data>>
    ELSE <<PyDict(<<KV(<<"v", "a", "l", "u", "e">>, target_data)>>)>>

\* lines 273-286: the list the loop iterates
ItemsToProcess(target_data, items_path) ==
    IF IsList(target_data) THEN target_data.v
    ELSE IF IsDict(target_data) THEN <<target_data>>
    ELSE LET parts == Split(items_path, ".")
             key_name == IF Len(items_path) > 0 THEN parts[Len(parts)]
                         ELSE <<"v", "a", "l", "u", "e">>
         IN  <<PyDict(<<KV(key_name, target_data)>>)>>

\* lines 291-293: an item that is no dict becomes {"item": item}
AsItem(item) ==
    IF IsDict(item) THEN item ELSE PyDict(<<KV(<<"i", "t", "e", "m">>, item)>>)

\* Unresolved looking for an empty placeholder only
UnresolvedEmptyBraces(url) == Contains(url, <<"{", "}">>)

\* '{' in url and '}' in url
Unresolved(url) == Contains(url, <<"{">>) /\ Contains(url, <<"}">>)

\* as ChildUrl, with the parent's fields substituted before the item's
ChildUrlParentFirst(url, item, parent_data) ==
    SubstituteAll(IF IsDict(parent_data) THEN SubstituteAll(url, parent_data.v) ELSE url,
                  item.v)

\* lines 301-325: the child URL for an item, item fields first, then the
\* parent's fields if braces remain and the parent body is a dict
ChildUrl(url, item, parent_data) ==
    LET u1 == SubstituteAll(url, item.v)
    IN  IF Unresolved(u1) /\ IsDict(parent_data)
        THEN SubstituteAll(u1, parent_data.v)
        ELSE u1

(***************************************************************************)
(* The state.                                                              *)
(***************************************************************************)
VARIABLES
    config,        \* the loaded configuration: auth, single_apis, nested_apis
    registry,      \* the global ProcessorRegistry
    token,         \* OAuthHandler.token
    token_expiry,  \* OAuthHandler.token_expiry
    now,           \* the wall clock, in seconds
    files,         \* the logs directory: file name -> content
    log,           \* history: what the engine did, in order
    pc,            \* where main() is: [phase, si, ni], and n, the number of
                   \* operations done, where a specification bounds it
    nest,          \* the locals of the call_nested_apis in progress
    last           \* history: what the last operation returned

vars == <<config, registry, token, token_expiry, now, files, log, pc, nest, last>>

St == [files |-> files, log |-> log, token |-> token, token_expiry |-> token_expiry]

Idle == [active |-> FALSE, parent_data |-> None, items |-> <<>>, i |-> 0, j |-> 0]

\* register_processors(registry) of utils/processors.py, and the plug-ins
DefaultRegistry ==
    [preprocessors |-> [n \in {"add_headers", "template_url", "pre_raises", "pre_none"}
                            |-> n],
     postprocessors |-> [n \in {"filter_response", "flatten_json", "split_json_array",
                                "post_raises"} |-> n],
     output_processors |-> [n \in {"jsonl_file", "sink_sends", "sink_raises",
                                   "sink_false", "sink_none"} |-> n]]

(***************************************************************************)
(* The inputs the model draws from.                                        *)
(***************************************************************************)
K_id == <<"i", "d">>
K_org == <<"o", "r", "g">>
K_items == <<"i", "t", "e", "m", "s">>

\* {"org": "x", "items": [{"id": 1}, {"id": 2, "org": "y"}]}
BodyItems ==
    PyDict(<<KV(K_org, PyStr(<<"x">>)),
             KV(K_items, PyList(<<PyDict(<<KV(K_id, PyInt(1))>>),
                                  PyDict(<<KV(K_id, PyInt(2)),
                                           KV(K_org, PyStr(<<"y">>))>>)>>))>>)
\* {"id": 7}
BodyOne == PyDict(<<KV(K_id, PyInt(7))>>)
\* [{"id": 1}, 5]
BodyList == PyList(<<PyDict(<<KV(K_id, PyInt(1))>>), PyInt(5)>>)
\* 12
BodyScalar == PyInt(12)

\* what the transport may do for a call
TransportOutcomes ==
    {TransportError,
     TextResponse(404, <<"n", "o">>),
     JsonResponse(500, BodyOne),
     TextResponse(200, <<"o", "k">>),
     JsonResponse(200, BodyItems),
     JsonResponse(200, BodyOne),
     JsonResponse(200, BodyList),
     JsonResponse(200, BodyScalar)}

\* what the transport may do for a child call
ChildOutcomes ==
    {TransportError, TextResponse(404, <<"n", "o">>), JsonResponse(200, BodyOne)}

\* what the token endpoint may do
RefreshOutcomes ==
    {TokenExc, TokenStatus,
     TokenOk(PyStr(<<"tok">>), None),
     TokenOk(PyStr(<<"tok">>), PyInt(RefreshMargin)),
     TokenOk(PyStr(<<"tok">>), PyInt(2 * RefreshMargin)),
     TokenOk(None, PyInt(2 * RefreshMargin))}
RefreshChoices(auth) == IF auth.type = "oauth" THEN RefreshOutcomes ELSE {TokenExc}

\* items_path values: none, a list, elements in and out of range, a
\* non-numeric segment on a list, a scalar, a missing key, a trailing dot,
\* a segment on a scalar
ItemsPaths ==
    {<<>>,
     K_items,
     K_items \o <<".", "0">>,
     K_items \o <<".", "2">>,
     K_items \o <<".", "x">>,
     K_items \o <<".", "0", ".">> \o K_id,
     <<"n", "o">>,
     K_items \o <<".">>,
     K_org \o <<".", "0">>}

Child(url, interval) ==
    [ApiConfig(url, None, NoStage, NoStage, NoStage) EXCEPT !.interval = interval]
\* /c/{id}, /m/{missing}, /o/{org}/{id}, /i/{item}, /d/{id}/{id}
ChildSpecs ==
    {Child(<<"/", "c", "/", "{">> \o K_id \o <<"}">>, PyInt(0)),
     Child(<<"/", "m", "/", "{", "m", "i", "s", "s", "i", "n", "g", "}">>, None),
     Child(<<"/", "o", "/", "{">> \o K_org \o <<"}", "/", "{">> \o K_id \o <<"}">>, None),
     Child(<<"/", "i", "/", "{", "i", "t", "e", "m", "}">>, PyInt(0)),
     Child(<<"/", "d", "/", "{">> \o K_id \o <<"}", "/", "{">> \o K_id \o <<"}">>, None)}

\* the lists of 1..n different elements of S
RECURSIVE Lists(_, _)
Lists(S, n) ==
    IF n = 0 THEN {<<>>}
    ELSE LET shorter == Lists(S, n - 1)
         IN  shorter \cup {Append(l, x) : l \in {m \in shorter : Len(m) = n - 1},
                                          x \in S}
ChildLists ==
    {l \in Lists(ChildSpecs, MaxChildren) :
        Len(l) > 0 /\ \A a, b \in 1..Len(l) : a # b => l[a] # l[b]}

Parent(items_path) ==
    [ApiConfig(<<"/", "p">>, None, NoStage, NoStage, NoStage)
        EXCEPT !.items_path = items_path]

BasicAuth == [type |-> "basic", token |-> None]

(***************************************************************************)
(* main(): the loop over single_apis, then the loop over nested_apis.      *)
(***************************************************************************)
SetState(S) ==
    /\ files' = S.files
    /\ log' = S.log
    /\ token' = S.token
    /\ token_expiry' = S.token_expiry

\* the loop of main() takes what call_single_api gave for entry pc.si
SingleReturned(r) ==
    /\ SetState(r.S)
    /\ config' = [config EXCEPT !.single_apis[pc.si] = r.arg]
    /\ pc' = IF r.exc THEN [pc EXCEPT !.phase = "exit1"]
             ELSE [pc EXCEPT !.si = @ + 1]
    /\ last' = [op |-> "call_single_api", exc |-> r.exc, ret |-> r.ret,
                item |-> None, i |-> 0, j |-> 0]

\* main.py lines 155-156: the next entry of single_apis
MainSingle ==
    /\ pc.phase = "run"
    /\ pc.si <= Len(config.single_apis)
    /\ \E tr \in TransportOutcomes, rf \in RefreshChoices(config.auth) :
         SingleReturned(CallSingleApi(registry, config.auth, config.single_apis[pc.si],
                                      tr, rf, St, now))
    /\ UNCHANGED <<registry, now, nest>>

\* lines 244-286, once the parent call has returned a response: the list
\* of items, or no list where the code returns
ParentItems(response, items_path) ==
    IF response = None THEN [ok |-> FALSE, items |-> <<>>]
    ELSE IF response.v.json = NoJson THEN [ok |-> FALSE, items |-> <<>>]
    ELSE IF ~ResolveItemsPath(response.v.json, items_path).ok
    THEN [ok |-> FALSE, items |-> <<>>]
    ELSE [ok |-> TRUE,
          items |-> ItemsToProcess(ResolveItemsPath(response.v.json, items_path).target,
                                   items_path)]

\* as ParentReturned, without the status test of line 240
ParentReturnedAnyStatus(r, found, child_api_configs) ==
    /\ SetState(r.S)
    /\ config' = [config EXCEPT !.nested_apis[pc.ni].parent_api = r.arg]
    /\ last' = [op |-> "parent", exc |-> r.exc, ret |-> r.ret,
                item |-> None, i |-> 0, j |-> 0]
    /\ IF r.exc
       THEN pc' = [pc EXCEPT !.phase = "exit1"] /\ nest' = Idle
       ELSE IF \/ r.ret = None
               \/ ~found.ok
               \/ Len(found.items) = 0
               \/ Len(child_api_configs) = 0
       THEN pc' = [pc EXCEPT !.ni = @ + 1] /\ nest' = Idle
       ELSE /\ pc' = pc
            /\ nest' = [active |-> TRUE, parent_data |-> r.ret.v.json,
                        items |-> found.items, i |-> 1, j |-> 1]

\* lines 238-288: found is the list of items for the parent's response
ParentReturned(r, found, child_api_configs) ==
    /\ SetState(r.S)
    /\ config' = [config EXCEPT !.nested_apis[pc.ni].parent_api = r.arg]
    /\ last' = [op |-> "parent", exc |-> r.exc, ret |-> r.ret,
                item |-> None, i |-> 0, j |-> 0]
    /\ IF r.exc
       THEN pc' = [pc EXCEPT !.phase = "exit1"] /\ nest' = Idle
       ELSE IF \/ r.ret = None
               \/ r.ret.v.status_code >= 400
               \/ ~found.ok
               \/ Len(found.items) = 0
               \/ Len(child_api_configs) = 0
       THEN pc' = [pc EXCEPT !.ni = @ + 1] /\ nest' = Idle
       ELSE /\ pc' = pc
            /\ nest' = [active |-> TRUE, parent_data |-> r.ret.v.json,
                        items |-> found.items, i |-> 1, j |-> 1]

\* call_nested_apis takes what call_single_api gave for the parent
ParentCalled(r, items_path, child_api_configs) ==
    ParentReturned(r, ParentItems(r.ret, items_path), child_api_configs)

\* as NestedParent, without waiting for the loop over single_apis to end
NestedParentBeforeSingles ==
    /\ pc.phase = "run"
    /\ pc.ni <= Len(config.nested_apis)
    /\ ~nest.active
    /\ \E tr \in TransportOutcomes, rf \in RefreshChoices(config.auth) :
         ParentCalled(
            CallSingleApi(registry, config.auth, config.nested_apis[pc.ni].parent_api,
                          tr, rf, St, now),
            config.nested_apis[pc.ni].parent_api.items_path,
            config.nested_apis[pc.ni].child_apis)
    /\ UNCHANGED <<registry, now>>

\* main.py lines 158-164 and call_nested_apis lines 237-286: the parent
\* call of the next nested entry, the walk along items_path and the list of
\* items
NestedParent ==
    /\ pc.phase = "run"
    /\ pc.si > Len(config.single_apis)
    /\ pc.ni <= Len(config.nested_apis)
    /\ ~nest.active
    /\ \E tr \in TransportOutcomes, rf \in RefreshChoices(config.auth) :
         ParentCalled(
            CallSingleApi(registry, config.auth, config.nested_apis[pc.ni].parent_api,
                          tr, rf, St, now),
            config.nested_apis[pc.ni].parent_api.items_path,
            config.nested_apis[pc.ni].child_apis)
    /\ UNCHANGED <<registry, now>>

\* NextTurn with the two loops swapped: every item for a child, then the
\* next child
NextTurnChildMajor(n_children) ==
    IF nest.i = Len(nest.items) /\ nest.j = n_children THEN Idle
    ELSE IF nest.i = Len(nest.items) THEN [nest EXCEPT !.i = 1, !.j = @ + 1]
    ELSE [nest EXCEPT !.i = @ + 1]

\* the position after the turn for (nest.i, nest.j)
NextTurn(n_children) ==
    IF nest.i = Len(nest.items) /\ nest.j = n_children THEN Idle
    ELSE IF nest.j = n_children THEN [nest EXCEPT !.i = @ + 1, !.j = 1]
    ELSE [nest EXCEPT !.j = @ + 1]

\* lines 327-330: the pair is skipped
ChildSkipped(item, n_children) ==
    /\ nest' = NextTurn(n_children)
    /\ pc' = IF NextTurn(n_children) = Idle THEN [pc EXCEPT !.ni = @ + 1] ELSE pc
    /\ last' = [op |-> "skip", exc |-> FALSE, ret |-> None,
                item |-> item, i |-> nest.i, j |-> nest.j]
    /\ UNCHANGED <<config, files, log, token, token_expiry, now>>

\* as ChildReturned, with a pause of 1 whatever the child's interval is
ChildReturnedDefaultPause(r, item, url, interval, n_children) ==
    /\ last' = [op |-> "child", exc |-> r.exc, ret |-> r.ret,
                item |-> item, i |-> nest.i, j |-> nest.j]
    /\ config' = [config EXCEPT
                    !.nested_apis[pc.ni].child_apis[nest.j].headers = r.arg.headers]
    /\ IF r.exc
       THEN /\ SetState(r.S)
            /\ nest' = Idle
            /\ pc' = [pc EXCEPT !.ni = @ + 1]
            /\ now' = now
       ELSE /\ SetState(Logged(r.S, Event("sleep", url, "", PyInt(1))))
            /\ nest' = NextTurn(n_children)
            /\ pc' = IF NextTurn(n_children) = Idle THEN [pc EXCEPT !.ni = @ + 1] ELSE pc
            /\ now' = now + 1

\* lines 336-341: the loop takes what call_single_api gave for the child,
\* and sleeps; an exception ends the loop in line 343
ChildReturned(r, item, url, interval, n_children) ==
    /\ last' = [op |-> "child", exc |-> r.exc, ret |-> r.ret,
                item |-> item, i |-> nest.i, j |-> nest.j]
    /\ config' = [config EXCEPT
                    !.nested_apis[pc.ni].child_apis[nest.j].headers = r.arg.headers]
    /\ IF r.exc
       THEN /\ SetState(r.S)
            /\ nest' = Idle
            /\ pc' = [pc EXCEPT !.ni = @ + 1]
            /\ now' = now
       ELSE /\ SetState(IF interval > 0
                        THEN Logged(r.S, Event("sleep", url, "", PyInt(interval)))
                        ELSE r.S)
            /\ nest' = NextTurn(n_children)
            /\ pc' = IF NextTurn(n_children) = Idle THEN [pc EXCEPT !.ni = @ + 1] ELSE pc
            /\ now' = IF interval > 0 THEN now + interval ELSE now

\* lines 297-341 for one child_config and one item
ChildTurn(child_config, item, url, n_children) ==
    IF Unresolved(url)
    THEN ChildSkipped(item, n_children)
    ELSE \E tr \in ChildOutcomes, rf \in RefreshChoices(config.auth) :
            ChildReturned(
                CallSingleApi(registry, config.auth, [child_config EXCEPT !.url = url],
                              tr, rf, St, now),
                item, url,
                IF child_config.interval = None THEN 1 ELSE child_config.interval.v,
                n_children)

\* call_nested_apis lines 289-341: one turn of the inner loop, for item
\* nest.i and child nest.j
NestedChild ==
    /\ pc.phase = "run"
    /\ nest.active
    /\ ChildTurn(config.nested_apis[pc.ni].child_apis[nest.j],
                 AsItem(nest.items[nest.i]),
                 ChildUrl(config.nested_apis[pc.ni].child_apis[nest.j].url,
                          AsItem(nest.items[nest.i]), nest.parent_data),
                 Len(config.nested_apis[pc.ni].child_apis))
    /\ UNCHANGED registry

\* main.py lines 166-168 and the return: the run ends with exit code 0
Finish ==
    /\ pc.phase = "run"
    /\ pc.si > Len(config.single_apis)
    /\ pc.ni > Len(config.nested_apis)
    /\ pc' = [pc EXCEPT !.phase = "exit0"]
    /\ UNCHANGED <<config, registry, token, token_expiry, now, files, log, nest, last>>

(***************************************************************************)
(* SpecNested: one nested entry, its parent call and its child calls.      *)
(***************************************************************************)
InitCommon ==
    /\ token = None
    /\ token_expiry = None
    /\ now = 0
    /\ files = <<>>
    /\ log = <<>>
    /\ pc = [phase |-> "run", si |-> 1, ni |-> 1, n |-> 0]
    /\ nest = Idle
    /\ last = [op |-> "", exc |-> FALSE, ret |-> None, item |-> None, i |-> 0, j |-> 0]

InitNested ==
    /\ InitCommon
    /\ registry = DefaultRegistry
    /\ \E items_path \in ItemsPaths, children \in ChildLists :
         config = [auth |-> BasicAuth,
                   single_apis |-> <<>>,
                   nested_apis |-> <<[parent_api |-> Parent(items_path),
                                      child_apis |-> children]>>]

NextNested == NestedParent \/ NestedChild \/ Finish

SpecNested == InitNested /\ [][NextNested]_vars

(***************************************************************************)
(* SpecSingle: one entry of single_apis, with every combination of         *)
(* preprocessor, postprocessor and output processor.                       *)
(***************************************************************************)
K_fields == <<"fields">>
PreStages ==
    {NoStage,
     Stage("add_headers",
           <<KV(<<"headers">>, PyDict(<<KV(<<"X-Source">>, PyStr(<<"puller">>))>>))>>),
     Stage("pre_raises", <<>>),
     Stage("pre_none", <<>>),
     Stage("not_registered", <<>>)}
PostStages ==
    {NoStage,
     Stage("filter_response", <<KV(K_fields, PyList(<<PyStr(K_id)>>))>>),
     Stage("split_json_array", <<>>),
     Stage("post_raises", <<>>),
     Stage("not_registered", <<>>)}
OutStages ==
    {NoStage,
     Stage("jsonl_file", <<>>),
     Stage("sink_sends", <<>>),
     Stage("sink_raises", <<>>),
     Stage("sink_false", <<>>),
     Stage("sink_none", <<>>),
     Stage("not_registered", <<>>)}

SingleConfigs ==
    {ApiConfig(<<"/", "a", "/", "s">>, headers, pre, post, out) :
        headers \in {None}, pre \in PreStages, post \in PostStages, out \in OutStages}

InitSingle ==
    /\ InitCommon
    /\ registry = DefaultRegistry
    /\ \E api \in SingleConfigs :
         config = [auth |-> BasicAuth, single_apis |-> <<api>>, nested_apis |-> <<>>]

NextSingle == MainSingle \/ Finish

SpecSingle == InitSingle /\ [][NextSingle]_vars

(***************************************************************************)
(* SpecRegistry: the registry by itself, from empty: functions are         *)
(* registered under names and the three run_ methods are called.           *)
(***************************************************************************)
RegNames == {"a", "b"}
RunNames == RegNames \cup {"not_registered"}
RegPreFns == {"add_headers", "pre_raises", "pre_none"}
RegPostFns == {"filter_response", "post_raises"}
RegOutFns == {"jsonl_file", "sink_raises"}
RunKwargs ==
    PyDict(<<KV(<<"headers">>, PyDict(<<KV(<<"X-Source">>, PyStr(<<"puller">>))>>)),
             KV(K_fields, PyList(<<PyStr(K_id)>>))>>)
RunConfig == ApiConfig(<<"/", "a", "/", "s">>, None, NoStage, NoStage, NoStage)
RunResponses == {JsonResponse(200, BodyOne), TextResponse(200, <<"o", "k">>)}
RunData == {BodyOne, PyStr(<<"o", "k">>)}

InitRegistry ==
    /\ InitCommon
    /\ registry = EmptyRegistry
    /\ config = [auth |-> BasicAuth, single_apis |-> <<>>, nested_apis |-> <<>>]

\* a register_ method has returned: last tells which one, for which name
\* (item) and which function (ret)
RegisterReturned(op, name, fn) ==
    last' = [op |-> op, exc |-> FALSE, ret |-> PyStr(<<fn>>),
             item |-> PyStr(<<name>>), i |-> 0, j |-> 0]

RegisterPre ==
    /\ \E name \in RegNames, fn \in RegPreFns :
         /\ registry' = register_preprocessor(registry, name, fn)
         /\ RegisterReturned("register_preprocessor", name, fn)
    /\ UNCHANGED <<config, token, token_expiry, now, files, log, pc, nest>>

RegisterPost ==
    /\ \E name \in RegNames, fn \in RegPostFns :
         /\ registry' = register_postprocessor(registry, name, fn)
         /\ RegisterReturned("register_postprocessor", name, fn)
    /\ UNCHANGED <<config, token, token_expiry, now, files, log, pc, nest>>

RegisterOut ==
    /\ \E name \in RegNames, fn \in RegOutFns :
         /\ registry' = register_output_processor(registry, name, fn)
         /\ RegisterReturned("register_output_processor", name, fn)
    /\ UNCHANGED <<config, token, token_expiry, now, files, log, pc, nest>>

\* what a run_ method gave to its caller: exc when an exception left it
RunReturned(op, name, result) ==
    last' = [op |-> op, exc |-> result.k = "raise", ret |-> result.val,
             item |-> PyStr(<<name>>), i |-> 0, j |-> 0]

RunPre ==
    /\ \E name \in RunNames :
         RunReturned("run_preprocessor", name,
                     run_preprocessor(registry, name, RunConfig, RunKwargs))
    /\ UNCHANGED <<config, registry, token, token_expiry, now, files, log, pc, nest>>

RunPost ==
    /\ \E name \in RunNames, response \in RunResponses :
         RunReturned("run_postprocessor", name,
                     run_postprocessor(registry, name, response, RunKwargs))
    /\ UNCHANGED <<config, registry, token, token_expiry, now, files, log, pc, nest>>

RunOutReturned(name, result) ==
    /\ RunReturned("run_output_processor", name, result)
    /\ SetState(result.S)

RunOut ==
    /\ Len(log) < MaxWrites
    /\ \E name \in RunNames, data \in RunData :
         RunOutReturned(name,
                        run_output_processor(registry, name, data, RunConfig.url,
                                             PyDict(<<>>), St, now))
    /\ UNCHANGED <<config, registry, now, pc, nest>>

NextRegistry ==
    RegisterPre \/ RegisterPost \/ RegisterOut \/ RunPre \/ RunPost \/ RunOut

SpecRegistry == InitRegistry /\ [][NextRegistry]_vars

(***************************************************************************)
(* SpecOAuth: the OAuth handler by itself: get_token is called, and the    *)
(* clock advances between the calls.                                       *)
(***************************************************************************)
OAuthAuth == [type |-> "oauth", token |-> None]
\* the advances of the clock, in seconds
ClockSteps == {1, RefreshMargin - 1, RefreshMargin}

InitOAuth ==
    /\ InitCommon
    /\ registry = DefaultRegistry
    /\ config = [auth |-> OAuthAuth, single_apis |-> <<>>, nested_apis |-> <<>>]

\* get_token has returned g.token: i is the number of refresh requests of
\* the call, j counts the calls
TokenReturned(g) ==
    /\ SetState(g.S)
    /\ last' = [op |-> "get_token", exc |-> FALSE, ret |-> g.token, item |-> None,
                i |-> Len(g.S.log) - Len(log), j |-> last.j + 1]

OAuthGetToken ==
    /\ pc.n < MaxSteps
    /\ \E rf \in RefreshOutcomes : TokenReturned(GetToken(St, now, rf))
    /\ pc' = [pc EXCEPT !.n = @ + 1]
    /\ UNCHANGED <<config, registry, now, nest>>

ClockAdvances ==
    /\ pc.n < MaxSteps
    /\ \E d \in ClockSteps : now' = now + d
    /\ pc' = [pc EXCEPT !.n = @ + 1]
    /\ UNCHANGED <<config, registry, token, token_expiry, files, log, nest, last>>

NextOAuth == OAuthGetToken \/ ClockAdvances

SpecOAuth == InitOAuth /\ [][NextOAuth]_vars

(***************************************************************************)
(* SpecRun: main() from the choice of the auth handler: every auth_type,   *)
(* one or two entries of single_apis, and the clock.                       *)
(***************************************************************************)
UpperCase == <<"A", "B", "C", "D", "E", "F", "G", "H", "I", "J", "K", "L", "M",
               "N", "O", "P", "Q", "R", "S", "T", "U", "V", "W", "X", "Y", "Z">>
LowerCase == <<"a", "b", "c", "d", "e", "f", "g", "h", "i", "j", "k", "l", "m",
               "n", "o", "p", "q", "r", "s", "t", "u", "v", "w", "x", "y", "z">>
\* str.lower()
Lower(s) ==
    [n \in 1..Len(s) |->
        IF \E k \in 1..26 : UpperCase[k] = s[n]
        THEN LowerCase[CHOOSE k \in 1..26 : UpperCase[k] = s[n]]
        ELSE s[n]]

\* auth_handler = None, before the choice
NoAuth == [type |-> "", token |-> None]
BearerAuth(tok) == [type |-> "bearer", token |-> tok]

\* as AuthHandler, with basic authentication for an unknown type
AuthHandlerOrBasic(auth_type, tok) ==
    IF Lower(auth_type) = <<"b", "e", "a", "r", "e", "r">> THEN BearerAuth(tok)
    ELSE IF Lower(auth_type) = <<"o", "a", "u", "t", "h">> THEN OAuthAuth
    ELSE BasicAuth

\* main.py lines 124-142: the handler for auth_type, NoAuth where the code
\* exits
AuthHandler(auth_type, tok) ==
    IF Lower(auth_type) = <<"b", "a", "s", "i", "c">> THEN BasicAuth
    ELSE IF Lower(auth_type) = <<"b", "e", "a", "r", "e", "r">> THEN BearerAuth(tok)
    ELSE IF Lower(auth_type) = <<"o", "a", "u", "t", "h">> THEN OAuthAuth
    ELSE NoAuth

AuthTypes ==
    {<<"b", "a", "s", "i", "c">>,
     <<"B", "a", "s", "i", "c">>,
     <<"B", "E", "A", "R", "E", "R">>,
     <<"o", "a", "u", "t", "h">>,
     <<"O", "A", "u", "t", "h">>,
     <<"d", "i", "g", "e", "s", "t">>,
     <<>>}

Plain(url) == ApiConfig(url, None, NoStage, NoStage, NoStage)
RunSingles ==
    {<<Plain(<<"/", "a", "/", "s">>)>>,
     <<Plain(<<"/", "a", "/", "s">>), Plain(<<"/", "b", "/", "s">>)>>}

InitRun ==
    /\ token = None
    /\ token_expiry = None
    /\ now = 0
    /\ files = <<>>
    /\ log = <<>>
    /\ pc = [phase |-> "start", si |-> 1, ni |-> 1, n |-> 0]
    /\ nest = Idle
    /\ last = [op |-> "", exc |-> FALSE, ret |-> None, item |-> None, i |-> 0, j |-> 0]
    /\ registry = DefaultRegistry
    /\ \E auth_type \in AuthTypes, single_apis \in RunSingles :
         config = [auth_type |-> auth_type, token |-> PyStr(<<"t0">>), auth |-> NoAuth,
                   single_apis |-> single_apis, nested_apis |-> <<>>]

\* main.py lines 124-149: the auth handler is chosen, or the run ends with
\* sys.exit(1)
MainStart ==
    /\ pc.phase = "start"
    /\ config' = [config EXCEPT !.auth = AuthHandler(config.auth_type, config.token)]
    /\ pc' = [pc EXCEPT !.phase = IF AuthHandler(config.auth_type, config.token) = NoAuth
                                  THEN "exit1" ELSE "run"]
    /\ UNCHANGED <<registry, token, token_expiry, now, files, log, nest, last>>

\* a second passes between two calls
SecondPasses ==
    /\ pc.phase = "run"
    /\ now < MaxSeconds
    /\ now' = now + 1
    /\ UNCHANGED <<config, registry, token, token_expiry, files, log, pc, nest, last>>

NextRun == MainStart \/ MainSingle \/ SecondPasses \/ Finish

SpecRun == InitRun /\ [][NextRun]_vars

(***************************************************************************)
(* SpecBatch: a run over one entry of single_apis and two entries of       *)
(* nested_apis, with processors that fail, authored headers, and parent    *)
(* bodies and items_path values that end a nested call early.              *)
(***************************************************************************)
AuthoredHeaders == PyDict(<<KV(<<"Accept">>, PyStr(<<"x">>))>>)
AddHeaders ==
    Stage("add_headers",
          <<KV(<<"headers">>, PyDict(<<KV(<<"X-Source">>, PyStr(<<"puller">>))>>))>>)
BatchSingles ==
    {Plain(<<"/", "a", "/", "s">>),
     ApiConfig(<<"/", "a", "/", "s">>, AuthoredHeaders, AddHeaders, NoStage, NoStage),
     ApiConfig(<<"/", "a", "/", "s">>, None, Stage("pre_raises", <<>>),
               Stage("post_raises", <<>>), Stage("sink_raises", <<>>)),
     ApiConfig(<<"/", "a", "/", "s">>, None, Stage("not_registered", <<>>),
               Stage("not_registered", <<>>), Stage("not_registered", <<>>))}
BatchItemsPaths == {<<>>, K_items, K_items \o <<".", "x">>}
\* the child /c/{id}, without a pause after it
BatchChild == Child(<<"/", "c", "/", "{">> \o K_id \o <<"}">>, PyInt(0))
\* the same with authored headers and the add_headers preprocessor
BatchChildWithHeaders ==
    [ApiConfig(<<"/", "c", "/", "{">> \o K_id \o <<"}">>, AuthoredHeaders, AddHeaders,
               NoStage, NoStage) EXCEPT !.interval = PyInt(0)]
BatchNested(items_path) ==
    <<[parent_api |-> Parent(items_path), child_apis |-> <<BatchChild>>],
      [parent_api |-> [Parent(K_items) EXCEPT !.url = <<"/", "q">>],
       child_apis |-> <<BatchChildWithHeaders>>]>>

InitBatch ==
    /\ InitCommon
    /\ registry = DefaultRegistry
    /\ \E api \in BatchSingles, items_path \in BatchItemsPaths :
         config = [auth |-> BasicAuth, single_apis |-> <<api>>,
                   nested_apis |-> BatchNested(items_path)]

NextBatch == MainSingle \/ NestedParent \/ NestedChild \/ Finish

SpecBatch == InitBatch /\ [][NextBatch]_vars

(***************************************************************************)
(* SpecPre: one single entry whose preprocessor may be a plug-in that      *)
(* returns another configuration or something that is no mapping, and      *)
(* whose method may be no string.                                          *)
(***************************************************************************)
PlugInRegistry ==
    register_preprocessor(
        register_preprocessor(DefaultRegistry, "pre_reroutes", "pre_reroutes"),
        "pre_returns_list", "pre_returns_list")
PreConfigs ==
    {[ApiConfig(<<"/", "a", "/", "s">>, headers, pre, post, out)
        EXCEPT !.method = method] :
        headers \in {None, AuthoredHeaders},
        pre \in PreStages \cup {Stage("pre_reroutes", <<>>),
                                Stage("pre_returns_list", <<>>)},
        post \in {NoStage, Stage("split_json_array", <<>>)},
        out \in {NoStage, Stage("jsonl_file", <<>>)},
        method \in {PyStr(<<"GET">>), PyInt(5)}}

InitPre ==
    /\ InitCommon
    /\ registry = PlugInRegistry
    /\ \E api \in PreConfigs :
         config = [auth |-> BasicAuth, single_apis |-> <<api>>, nested_apis |-> <<>>]

NextPre == MainSingle \/ Finish

SpecPre == InitPre /\ [][NextPre]_vars

(***************************************************************************)
(* SpecPause: one nested entry with two children whose intervals are 2,    *)
(* -1, 0 or not set.                                                        *)
(***************************************************************************)
\* /c/{id} with interval 2, /n/{id} with -1, /z/{id} with 0, /o/{id} with
\* none
PauseChildren ==
    {Child(<<"/", "c", "/", "{">> \o K_id \o <<"}">>, PyInt(2)),
     Child(<<"/", "n", "/", "{">> \o K_id \o <<"}">>, PyInt(-1)),
     Child(<<"/", "z", "/", "{">> \o K_id \o <<"}">>, PyInt(0)),
     Child(<<"/", "o", "/", "{">> \o K_id \o <<"}">>, None)}

InitPause ==
    /\ InitCommon
    /\ registry = DefaultRegistry
    /\ \E items_path \in {<<>>, K_items}, a \in PauseChildren, b \in PauseChildren :
         /\ a # b
         /\ config = [auth |-> BasicAuth,
                      single_apis |-> <<>>,
                      nested_apis |-> <<[parent_api |-> Parent(items_path),
                                         child_apis |-> <<a, b>>]>>]

NextPause == NestedParent \/ NestedChild \/ Finish

SpecPause == InitPause /\ [][NextPause]_vars

(***************************************************************************)
(* SpecParent: one nested entry whose parent names a postprocessor and an  *)
(* output sink.                                                            *)
(***************************************************************************)
ParentPostStages ==
    {NoStage,
     Stage("filter_response", <<KV(K_fields, PyList(<<PyStr(K_id)>>))>>),
     Stage("flatten_json", <<>>),
     Stage("split_json_array", <<>>),
     Stage("post_raises", <<>>)}
ParentOutStages ==
    {NoStage,
     Stage("jsonl_file", <<>>),
     Stage("sink_sends", <<>>),
     Stage("sink_raises", <<>>)}

InitParent ==
    /\ InitCommon
    /\ registry = DefaultRegistry
    /\ \E items_path \in {<<>>, K_items}, post \in ParentPostStages,
          out \in ParentOutStages :
         config = [auth |-> BasicAuth,
                   single_apis |-> <<>>,
                   nested_apis |->
                       <<[parent_api |-> [Parent(items_path) EXCEPT
                                             !.postprocess = post, !.output = out],
                          child_apis |-> <<BatchChild>>]>>]

NextParent == NestedParent \/ NestedChild \/ Finish

SpecParent == InitParent /\ [][NextParent]_vars

(***************************************************************************)
(* What the claims speak of, stated on the history.                        *)
(***************************************************************************)
IsTransport(e) == e.ev = "transport"
IsSave(e) == e.ev = "save"
\* the transport calls made so far, in order
TransportCalls == SelectSeq(log, IsTransport)
\* the URLs of the child calls of the nested entry: every transport call
\* after the parent's
ChildCallUrls ==
    [n \in 1..(Len(TransportCalls) - 1) |-> TransportCalls[n + 1].url]
\* the response the parent call of the nested entry got
ParentResponse == TransportCalls[1].resp
\* the nested entry has been worked off
NestedFinished == pc.ni > Len(config.nested_apis) /\ ~nest.active

\* the names between braces in a URL template
PlaceholderNames(t) ==
    {SubSeq(t, a + 1, b - 1) :
        <<a, b>> \in {<<a, b>> \in (1..Len(t)) \X (1..Len(t)) :
                        /\ a < b /\ t[a] = "{" /\ t[b] = "}"
                        /\ \A m \in (a + 1)..(b - 1) : t[m] \notin {"{", "}"}}}

\* the template with every {name} replaced, in one pass from the left, by
\* the item's field of that name, or else by the parent's when the parent
\* is a mapping; a name that neither has stays as it is
RECURSIVE Fill(_, _, _)
Fill(t, item, parent) ==
    IF Len(t) = 0 THEN <<>>
    ELSE IF Head(t) = "{" /\ \E b \in 2..Len(t) : t[b] = "}"
    THEN LET b == CHOOSE c \in 2..Len(t) :
                    t[c] = "}" /\ \A m \in 2..(c - 1) : t[m] # "}"
             name == SubSeq(t, 2, b - 1)
             rest == Fill(SubSeq(t, b + 1, Len(t)), item, parent)
         IN  IF HasKey(item, name) THEN Str(DictGet(item, name)) \o rest
             ELSE IF IsDict(parent) /\ HasKey(parent, name)
             THEN Str(DictGet(parent, name)) \o rest
             ELSE SubSeq(t, 1, b) \o rest
    ELSE <<Head(t)>> \o Fill(Tail(t), item, parent)

\* a {name} placeholder is left in the URL
HasPlaceholder(url) == PlaceholderNames(url) # {}

\* the item list the specification derives from a target
SpecItems(target, items_path) ==
    IF target.t = "list"
    THEN [n \in 1..Len(target.v) |->
            IF target.v[n].t = "dict" THEN target.v[n]
            ELSE PyDict(<<KV(<<"i", "t", "e", "m">>, target.v[n])>>)]
    ELSE IF target.t = "dict" THEN <<target>>
    ELSE <<PyDict(<<KV(IF items_path = <<>> THEN <<"v", "a", "l", "u", "e">>
                       ELSE Split(items_path, ".")[Len(Split(items_path, "."))],
                       target)>>)>>

\* the filled URLs of the (item, child) pairs, in item-major order
PairsOf(items, children, parent) ==
    [n \in 1..(Len(items) * Len(children)) |->
        Fill(children[((n - 1) % Len(children)) + 1].url,
             items[((n - 1) \div Len(children)) + 1], parent)]
\* the elements of a list of URLs in which no placeholder is left
Resolved(url) == ~HasPlaceholder(url)
SentOf(urls) == SelectSeq(urls, Resolved)

\* the nested entry of SpecNested
TheParent == config.nested_apis[1].parent_api
TheChildren == config.nested_apis[1].child_apis
\* the parent call succeeded and its items_path led to a target
TargetFound ==
    /\ Len(TransportCalls) > 0
    /\ ParentResponse # TransportError
    /\ ParentResponse.v.status_code < 400
    /\ ParentResponse.v.json # NoJson
    /\ ResolveItemsPath(ParentResponse.v.json, TheParent.items_path).ok
TheTarget == ResolveItemsPath(ParentResponse.v.json, TheParent.items_path).target
\* the target is a list of mappings whose fields resolve every placeholder
\* of every child URL
AllResolvedByItems ==
    /\ TargetFound
    /\ TheTarget.t = "list"
    /\ \A n \in 1..Len(TheTarget.v) :
        /\ TheTarget.v[n].t = "dict"
        /\ \A c \in 1..Len(TheChildren) :
             \A name \in PlaceholderNames(TheChildren[c].url) :
                HasKey(TheTarget.v[n], name)

\* C1: when the parent call succeeds and the target is a sequence of N
\* mappings whose fields resolve every placeholder of the K child URLs, the
\* child transport calls are issued in item-major order, each with the
\* template filled from its item, and there are exactly N*K of them when
\* the nested call ends.
C1_ItemMajorOrder ==
    AllResolvedByItems =>
        LET expected == PairsOf(TheTarget.v, TheChildren, None)
        IN  /\ Len(ChildCallUrls) <= Len(expected)
            /\ ChildCallUrls = SubSeq(expected, 1, Len(ChildCallUrls))
            /\ NestedFinished => Len(ChildCallUrls) = Len(TheTarget.v) * Len(TheChildren)

\* two items and two children, all four calls made
C1_Witness ==
    /\ AllResolvedByItems
    /\ NestedFinished
    /\ Len(TheTarget.v) = 2
    /\ Len(TheChildren) = 2
    /\ Len(ChildCallUrls) = 4
    /\ ChildCallUrls[1] = <<"/", "c", "/", "1">>
    /\ ChildCallUrls[3] = <<"/", "c", "/", "2">>

\* C2: the item list is every element of a sequence target (an element
\* that is no mapping wrapped as {"item": e}), the target itself when it is
\* a mapping, and {k: target} for a scalar, k the last segment of items_path
\* or "value" without one; so a mapping parent body without items_path gives
\* exactly one call for every child it resolves.
C2_ItemList ==
    /\ nest.active =>
         /\ TargetFound
         /\ Len(nest.items) = Len(SpecItems(TheTarget, TheParent.items_path))
    /\ last.op \in {"child", "skip"} =>
         last.item = SpecItems(TheTarget, TheParent.items_path)[last.i]
    /\ (/\ NestedFinished
        /\ TargetFound
        /\ TheParent.items_path = <<>>
        /\ ParentResponse.v.json.t = "dict") =>
         ChildCallUrls = SentOf(PairsOf(<<ParentResponse.v.json>>, TheChildren, None))

\* the parent body {"id": 7} without items_path and the child /c/{id}: the
\* one call /c/7
C2_Witness ==
    /\ NestedFinished
    /\ TargetFound
    /\ TheParent.items_path = <<>>
    /\ ParentResponse.v.json = BodyOne
    /\ Len(TheChildren) = 1
    /\ last.item = BodyOne
    /\ ChildCallUrls = <<(<<"/", "c", "/", "7">>)>>

\* C3: a child URL in which a {name} placeholder is left after the item
\* and the parent substitution is never sent, and the other (item, child)
\* pairs of the nested call, before and after it, are sent all the same.
C3_UnresolvedSkipped ==
    /\ \A n \in 1..Len(TransportCalls) : ~HasPlaceholder(TransportCalls[n].url)
    /\ TargetFound =>
         LET sent == SentOf(PairsOf(SpecItems(TheTarget, TheParent.items_path),
                                    TheChildren, ParentResponse.v.json))
         IN  /\ Len(ChildCallUrls) <= Len(sent)
             /\ ChildCallUrls = SubSeq(sent, 1, Len(ChildCallUrls))
             /\ NestedFinished => Len(ChildCallUrls) = Len(sent)

\* two items, the children /c/{id} and /m/{missing}: /c/1 and /c/2 are
\* called, the two /m/{missing} pairs between and after them are not
C3_Witness ==
    /\ NestedFinished
    /\ TargetFound
    /\ Len(TheChildren) = 2
    /\ PlaceholderNames(TheChildren[2].url) = {<<"m", "i", "s", "s", "i", "n", "g">>}
    /\ last.op = "skip"
    /\ last.i = 2
    /\ ChildCallUrls = <<(<<"/", "c", "/", "1">>), (<<"/", "c", "/", "2">>)>>

(***************************************************************************)
(* One call of call_single_api (SpecSingle): the history is the call's.    *)
(***************************************************************************)
\* the entry of single_apis and whether its call has returned
TheSingle == config.single_apis[1]
SingleDone == last.op = "call_single_api"
CountOf(evs) == Cardinality({n \in DOMAIN log : log[n].ev \in evs})
EventsOf(evs) == {log[n] : n \in {m \in DOMAIN log : log[m].ev \in evs}}
\* the transport gave a response, of an error status or not
Answered == Len(TransportCalls) = 1 /\ TransportCalls[1].resp # TransportError
TheResponse == TransportCalls[1].resp
ErrorStatus == Answered /\ TheResponse.v.status_code >= 400
GoodStatus == Answered /\ TheResponse.v.status_code < 400

\* C4: when the transport returns a response with status >= 400, neither
\* the postprocessor nor the output sink is invoked, an error artifact is
\* persisted, and the transport response is returned to the caller.
C4_ErrorShortCircuit ==
    SingleDone /\ ErrorStatus =>
        /\ CountOf({"post", "sink", "write", "sent"}) = 0
        /\ CountOf({"save"}) = 1
        /\ \A e \in EventsOf({"save"}) :
              /\ e.err
              /\ e.file \in DOMAIN files
              /\ SubSeq(e.file, 1, 1) = <<"error_">>
        /\ ~last.exc
        /\ last.ret = TheResponse

\* a 404 for an entry with a postprocessor and an output sink configured
C4_Witness ==
    /\ SingleDone
    /\ ErrorStatus
    /\ TheResponse.v.status_code = 404
    /\ TheSingle.postprocess.name = "filter_response"
    /\ TheSingle.output.name = "jsonl_file"
    /\ CountOf({"save"}) = 1

\* C5: the error artifact of a response with status >= 400 records the
\* status code (in its content or in its name) and the raw response body.
C5_ErrorArtifactRecordsStatus ==
    SingleDone /\ ErrorStatus =>
        \A e \in EventsOf({"save"}) :
            e.err =>
                /\ e.file \in DOMAIN files
                /\ files[e.file].fmt = "text"
                /\ Contains(files[e.file].data.v, TheResponse.v.text)
                /\ \/ Contains(files[e.file].data.v,
                               IntStr(TheResponse.v.status_code))
                   \/ Contains(e.file, IntStr(TheResponse.v.status_code))

\* C6: when the configured postprocessor throws or is not registered, on
\* a response with status < 400 and a JSON body, the call does not fail and
\* the data handed to the sink and to the default persistence is the body
\* parsed as JSON.
C6_FailedPostKeepsParsedBody ==
    (/\ SingleDone
     /\ GoodStatus
     /\ TheResponse.v.json # NoJson
     /\ TheSingle.postprocess.name \in {"post_raises", "not_registered"})
    => /\ ~last.exc
       /\ last.ret = TheResponse
       /\ \A e \in EventsOf({"sink", "save"}) : e.data = TheResponse.v.json

\* what the registry returns for the sink invocation e of the history
SinkReturn(e) ==
    run_output_processor(registry, e.name, e.data, e.url, TheSingle.output.args,
                         St, now)

\* C8: when the configured output sink is not registered or throws, the
\* registry returns False and the default persistence runs exactly once
\* with the processed data, so that the response is persisted.
C8_FailingSinkFallsBack ==
    (/\ SingleDone
     /\ GoodStatus
     /\ TheSingle.output.name \in {"sink_raises", "not_registered"})
    => /\ CountOf({"sink"}) = 1
       /\ CountOf({"save"}) = 1
       /\ \A e \in EventsOf({"sink"}) :
             /\ SinkReturn(e).k = "ret"
             /\ SinkReturn(e).val = PyBool(FALSE)
             /\ \A w \in EventsOf({"save"}) :
                   /\ ~w.err
                   /\ w.data = e.data
                   /\ w.file \in DOMAIN files
                   /\ files[w.file] = FileContent(e.data, FALSE, 0)
       /\ last.ret = TheResponse

\* a sink that throws, on a JSON body
C8_Witness ==
    /\ SingleDone
    /\ GoodStatus
    /\ TheSingle.output.name = "sink_raises"
    /\ TheSingle.postprocess.name = ""
    /\ TheResponse.v.json = BodyOne
    /\ CountOf({"save"}) = 1

\* C9: a call does at most one persistence action (the default
\* persistence, a file written or data sent on by the sink): none after a
\* truthy sink but the sink's, one default persistence when no sink is
\* configured or the sink returns a falsy value, exactly one error artifact
\* for a status >= 400, none for a transport failure.
C9_AtMostOnePersistence ==
    SingleDone =>
        /\ CountOf({"save", "write", "sent"}) <= 1
        /\ Cardinality(DOMAIN files) <= 1
        /\ ~Answered => CountOf({"save", "write", "sent"}) = 0 /\ DOMAIN files = {}
        /\ ErrorStatus =>
              /\ CountOf({"save"}) = 1
              /\ \A e \in EventsOf({"save"}) : e.err
        /\ GoodStatus =>
              /\ \A e \in EventsOf({"sink"}) :
                    Truthy(SinkReturn(e).val) => CountOf({"save"}) = 0
              /\ \A e \in EventsOf({"sink"}) :
                    ~Truthy(SinkReturn(e).val) =>
                        CountOf({"save"}) = 1 /\ CountOf({"write", "sent"}) = 0
              /\ CountOf({"sink"}) = 0 => CountOf({"save"}) = 1
              /\ \A e \in EventsOf({"save"}) : ~e.err

\* a sink that sends the data on and returns True: no artifact is written
C9_Witness ==
    /\ SingleDone
    /\ GoodStatus
    /\ TheSingle.output.name = "sink_sends"
    /\ CountOf({"sent"}) = 1
    /\ CountOf({"save"}) = 0
    /\ DOMAIN files = {}

(***************************************************************************)
(* The registry by itself (SpecRegistry).                                  *)
(***************************************************************************)
RunOps == {"run_preprocessor", "run_postprocessor", "run_output_processor"}
\* the function the last run_ call resolved its name to, "" if none
ResolvedFn ==
    LET m == CASE last.op = "run_preprocessor" -> registry.preprocessors
               [] last.op = "run_postprocessor" -> registry.postprocessors
               [] OTHER -> registry.output_processors
    IN  IF last.item.v[1] \in DOMAIN m THEN m[last.item.v[1]] ELSE ""

\* C7: run_preprocessor, run_postprocessor and run_output_processor, for
\* any name, registered or not, and any behaviour of the registered
\* function (throwing included), return a value and never propagate an
\* exception.
C7_RunNeverRaises == last.op \in RunOps => ~last.exc

\* a registered postprocessor that throws has been run
C7_Witness ==
    /\ last.op = "run_postprocessor"
    /\ ResolvedFn = "post_raises"
    /\ ~last.exc

(***************************************************************************)
(* The OAuth handler by itself (SpecOAuth).                                *)
(***************************************************************************)
RefreshCount(l) == Cardinality({n \in DOMAIN l : l[n].ev = "refresh"})
\* the step is a call of get_token
IsGetToken == last'.op = "get_token" /\ last'.j = last.j + 1

\* C10: a get_token call made with no token or no expiry cached, or with
\* less than 4 hours to the expiry, issues exactly one refresh request; a
\* call made with more than 4 hours to the expiry issues none and returns
\* the cached token.
C10_RefreshWithinMargin ==
    [][IsGetToken =>
          /\ (\/ token = None
              \/ token_expiry = None
              \/ token_expiry.v - now < RefreshMargin)
             => RefreshCount(log') = RefreshCount(log) + 1
          /\ (/\ token # None
              /\ token_expiry # None
              /\ token_expiry.v - now > RefreshMargin)
             => /\ RefreshCount(log') = RefreshCount(log)
                /\ last'.ret = token]_vars

\* three calls: the first refreshed (nothing was cached), the second
\* returned the cached token, the third, later, refreshed a cached token
\* less than 4 hours from its expiry
C10_Witness ==
    /\ last.op = "get_token"
    /\ last.j = 3
    /\ last.i = 1
    /\ RefreshCount(log) = 2
    /\ log[1].name = "ok"
    /\ now > 0
    /\ now = 2 * RefreshMargin - 2

(***************************************************************************)
(* A run from the choice of the auth handler (SpecRun).                    *)
(***************************************************************************)
K_Authorization == <<"Authorization">>
\* the token endpoint answered with a status other than 200, or the
\* request raised
FailedRefresh(e) == e.ev = "refresh" /\ e.name \in {"status", "exc"}

\* C11: when a token refresh fails, get_token returns no token without
\* raising, and the call that asked for it is still sent to the transport,
\* with no Authorization header.
C11_FailedRefreshUnauthenticated ==
    /\ \A n \in DOMAIN log :
          FailedRefresh(log[n]) =>
              /\ n < Len(log)
              /\ log[n + 1].ev = "transport"
              /\ ~HasKey(log[n + 1].data, K_Authorization)
    /\ (Len(log) > 0 /\ last.op = "call_single_api") => ~last.exc
    /\ (\E n \in DOMAIN log :
            /\ FailedRefresh(log[n])
            /\ \A m \in (n + 1)..Len(log) : log[m].ev # "refresh")
       => token = None

\* the first call's refresh raised; the call went out and its answer was
\* persisted
C11_Witness ==
    /\ config.auth = OAuthAuth
    /\ Len(log) >= 3
    /\ log[1].ev = "refresh"
    /\ log[1].name = "exc"
    /\ log[2].ev = "transport"
    /\ log[2].resp = JsonResponse(200, BodyOne)
    /\ ~HasKey(log[2].data, K_Authorization)
    /\ log[3].ev = "save"

(***************************************************************************)
(* The parent call of a nested entry (SpecNested).                         *)
(***************************************************************************)
\* the parent call failed: no response, or a status >= 400
ParentFailed ==
    \/ ParentResponse = TransportError
    \/ ParentResponse.v.status_code >= 400

\* C12: the parent call is executed exactly once and before any child
\* call; when it yields no result or a status >= 400, no child call is
\* issued.
C12_ParentOnceFirst ==
    /\ last.op # "" =>
          /\ Len(TransportCalls) >= 1
          /\ TransportCalls[1].url = TheParent.url
          /\ \A n \in 2..Len(TransportCalls) : TransportCalls[n].url # TheParent.url
    /\ last.op = "" => Len(TransportCalls) = 0
    /\ (Len(TransportCalls) >= 1 /\ ParentFailed) =>
          /\ Len(TransportCalls) = 1
          /\ ~nest.active
          /\ last.op = "parent"

\* a parent answered with status 500 and a JSON body that has the id the
\* child's URL asks for: the nested call ends with the parent call alone
C12_Witness ==
    /\ NestedFinished
    /\ Len(TransportCalls) = 1
    /\ ParentResponse = JsonResponse(500, BodyOne)
    /\ TheParent.items_path = <<>>
    /\ Len(TheChildren) = 1
    /\ PlaceholderNames(TheChildren[1].url) = {K_id}

(***************************************************************************)
(* A run over several entries (SpecBatch).                                 *)
(***************************************************************************)
\* the number of transport calls made to url
CallsTo(url) == Cardinality({n \in DOMAIN TransportCalls : TransportCalls[n].url = url})

\* C13: every entry of single_apis and of nested_apis is attempted,
\* whatever happened to the entries before it: the run never ends with
\* exit code 1, an entry the loop has passed was called once, and the run
\* ends only when the loops have passed every entry.
C13_EveryEntryAttempted ==
    /\ pc.phase # "exit1"
    /\ \A k \in 1..Len(config.single_apis) :
          CallsTo(config.single_apis[k].url) = (IF pc.si > k THEN 1 ELSE 0)
    /\ \A k \in 1..Len(config.nested_apis) :
          /\ pc.ni > k => CallsTo(config.nested_apis[k].parent_api.url) = 1
          /\ CallsTo(config.nested_apis[k].parent_api.url) = 1 => pc.ni >= k
    /\ pc.phase = "exit0" =>
          /\ pc.si = Len(config.single_apis) + 1
          /\ pc.ni = Len(config.nested_apis) + 1

\* the single entry with three failing processors met a transport error,
\* the first nested entry's items_path did not resolve, and the second
\* nested entry was still run to its child calls
C13_Witness ==
    /\ pc.phase = "exit0"
    /\ config.single_apis[1].preprocess.name = "pre_raises"
    /\ config.nested_apis[1].parent_api.items_path = K_items \o <<".", "x">>
    /\ Len(TransportCalls) = 5
    /\ TransportCalls[1].resp = TransportError
    /\ TransportCalls[2].resp = JsonResponse(200, BodyItems)
    /\ TransportCalls[3].url = <<"/", "q">>
    /\ TransportCalls[4].url = <<"/", "c", "/", "1">>
    /\ TransportCalls[4].resp = TextResponse(404, <<"n", "o">>)
    /\ TransportCalls[5].url = <<"/", "c", "/", "2">>

\* C14: an authored entry is never changed by the engine: at every point of
\* the run each entry of single_apis and of nested_apis, nested mappings
\* included, is as it was authored.
C14_AuthoredSpecUnchanged ==
    /\ \A k \in 1..Len(config.single_apis) : config.single_apis[k] \in BatchSingles
    /\ \E items_path \in BatchItemsPaths : config.nested_apis = BatchNested(items_path)

\* the default persistence actions of the run so far, in order
Saves == SelectSeq(log, IsSave)

\* C15: every call that reached the default persistence has an artifact of
\* its own that still holds its data: no two of them wrote the same file,
\* and each file holds what its call wrote.
C15_OneFilePerCall ==
    /\ \A a, b \in DOMAIN Saves : a # b => Saves[a].file # Saves[b].file
    /\ \A a \in DOMAIN Saves :
          /\ Saves[a].file \in DOMAIN files
          /\ files[Saves[a].file] = FileContent(Saves[a].data, FALSE, 0)

\* the auth types main() supports, in lower case
SupportedAuthTypes ==
    {<<"b", "a", "s", "i", "c">>, <<"b", "e", "a", "r", "e", "r">>,
     <<"o", "a", "u", "t", "h">>}

\* C16: with an auth_type other than basic, bearer or oauth, compared
\* without regard to case, the run ends with exit code 1 before any API
\* call: no transport call is made and no artifact is written; with one of
\* the three the run does not end that way.
C16_UnsupportedAuthAborts ==
    /\ Lower(config.auth_type) \notin SupportedAuthTypes =>
          /\ pc.phase \in {"start", "exit1"}
          /\ config.auth = NoAuth
          /\ log = <<>>
          /\ files = <<>>
    /\ Lower(config.auth_type) \in SupportedAuthTypes => pc.phase # "exit1"

\* auth_type digest: the run has ended with exit code 1
C16_Witness ==
    /\ config.auth_type = <<"d", "i", "g", "e", "s", "t">>
    /\ Len(config.single_apis) = 2
    /\ pc.phase = "exit1"
    /\ Len(TransportCalls) = 0
    /\ DOMAIN files = {}

\* the step made a transport call, and the call failed
TransportFailedNow ==
    /\ Len(TransportCalls') = Len(TransportCalls) + 1
    /\ TransportCalls'[Len(TransportCalls')].resp = TransportError

\* C17: no call is retried: a step of the run (a single entry, a nested
\* parent, or one resolved (item, child) pair) makes at most one transport
\* call, and when that call fails the step returns None, writes no
\* artifact, and the run goes on.
C17_NoRetry ==
    [][/\ Len(TransportCalls') <= Len(TransportCalls) + 1
       /\ TransportFailedNow =>
             /\ files' = files
             /\ Len(Saves') = Len(Saves)
             /\ last'.ret = None
             /\ ~last'.exc
             /\ pc'.phase = "run"]_vars

\* the single entry, the first parent and the second parent all met a
\* transport failure: three calls, no artifact, and the run ended with
\* exit code 0
C17_Witness ==
    /\ pc.phase = "exit0"
    /\ Len(TransportCalls) = 3
    /\ \A n \in 1..3 : TransportCalls[n].resp = TransportError
    /\ TransportCalls[3].url = <<"/", "q">>
    /\ DOMAIN files = {}

(***************************************************************************)
(* The stages of one call (SpecSingle).                                    *)
(***************************************************************************)
\* the body as the call falls back to it: parsed as JSON, or the raw text
BodyOf(response) ==
    IF response.v.json = NoJson THEN PyStr(response.v.text) ELSE response.v.json

\* C18: when the configured postprocessor returns None, the data handed
\* to the output sink and to the default persistence is the response body
\* parsed as JSON, or its raw text when it is not JSON.
C18_NonePostFallsBack ==
    (/\ SingleDone
     /\ GoodStatus
     /\ TheSingle.postprocess.name = "split_json_array"
     /\ CallPost("split_json_array", TheResponse, TheSingle.postprocess.args).k = "none")
    => /\ CountOf({"sink", "save"}) >= 1
       /\ \A e \in EventsOf({"sink", "save"}) : e.data = BodyOf(TheResponse)

\* C19: for every response with status < 400 a configured postprocessor is
\* invoked exactly once with the transport result, whether or not the body
\* parses as JSON, and a body that does not parse is not an error.
C19_PostInvokedOnce ==
    (SingleDone /\ GoodStatus /\ TheSingle.postprocess.name # "")
    => /\ CountOf({"post"}) = 1
       /\ \A e \in EventsOf({"post"}) :
             e.name = TheSingle.postprocess.name /\ e.data = TheResponse
       /\ ~last.exc
       /\ last.ret = TheResponse

\* the place of a stage in the pipeline
StageRank(ev) ==
    CASE ev = "pre" -> 1
      [] ev = "transport" -> 2
      [] ev = "post" -> 3
      [] ev = "sink" -> 4
      [] ev \in {"write", "sent"} -> 5
      [] ev = "save" -> 6
      [] OTHER -> 0

\* C20: within one call the stages happen in a fixed order and each at
\* most once: preprocessor (if configured), exactly one transport call,
\* postprocessor, output sink, default persistence (only if the sink did
\* not handle the data); the preprocessor runs before the transport call
\* for calls that end in an error response too.
C20_StageOrder ==
    /\ \A n \in DOMAIN log : StageRank(log[n].ev) > 0
    /\ \A n \in 1..(Len(log) - 1) : StageRank(log[n].ev) < StageRank(log[n + 1].ev)
    /\ CountOf({"write", "sent"}) = 1 => CountOf({"save"}) = 0
    /\ SingleDone =>
          /\ CountOf({"transport"}) = 1
          /\ CountOf({"pre"}) = (IF TheSingle.preprocess.name # "" THEN 1 ELSE 0)
          /\ TheSingle.preprocess.name # "" =>
                log[1].ev = "pre" /\ log[1].name = TheSingle.preprocess.name
          /\ TheSingle.postprocess.name = "" => CountOf({"post"}) = 0
          /\ TheSingle.output.name = "" => CountOf({"sink", "write", "sent"}) = 0
          /\ \A e \in EventsOf({"post"}) : e.name = TheSingle.postprocess.name
          /\ \A e \in EventsOf({"sink"}) : e.name = TheSingle.output.name

\* all four stages ran, in order, and the sink's refusal left the data
\* to the default persistence
C20_Witness ==
    /\ SingleDone
    /\ Len(log) = 5
    /\ log[1].ev = "pre" /\ log[1].name = "add_headers"
    /\ log[2].ev = "transport" /\ log[2].resp = JsonResponse(200, BodyOne)
    /\ log[3].ev = "post" /\ log[3].name = "filter_response"
    /\ log[4].ev = "sink" /\ log[4].name = "sink_false"
    /\ log[5].ev = "save"


\* the preprocessor of the single entry is not registered, raises or
\* returns None
PreFallsBack == TheSingle.preprocess.name \in {"not_registered", "pre_raises", "pre_none"}
K_XSource == <<"X-Source">>
\* the postprocessor and the output sink that were invoked are those of cfg
StagesOf(cfg) ==
    /\ \A e \in EventsOf({"post"}) : e.name = cfg.postprocess.name
    /\ \A e \in EventsOf({"sink"}) : e.name = cfg.output.name
    /\ GoodStatus /\ TheResponse.v.json # NoJson =>
          CountOf({"post"}) = (IF cfg.postprocess.name = "" THEN 0 ELSE 1)
    /\ GoodStatus => CountOf({"sink"}) = (IF cfg.output.name = "" THEN 0 ELSE 1)
\* the headers of the request hold every header of cfg
HeadersOf(cfg, sent) ==
    cfg.headers # None =>
        \A n \in 1..Len(cfg.headers.v) :
            /\ HasKey(sent, cfg.headers.v[n].k)
            /\ DictGet(sent, cfg.headers.v[n].k) = cfg.headers.v[n].v

\* C21: when the configured preprocessor is not registered, raises or
\* returns None, the transport call is made with the entry's own URL, method
\* and headers and the entry's own postprocessor and output sink follow;
\* when it returns a configuration, that one is used for the rest of the
\* call: its URL and headers go to the transport, and its postprocess and
\* output settings are the ones invoked.
C21_PreprocessorResultReplacesSpec ==
    SingleDone /\ Len(TransportCalls) = 1 =>
        LET e == TransportCalls[1]
        IN  /\ PreFallsBack =>
                /\ e.url = TheSingle.url
                /\ e.name = TheSingle.method.v[1]
                /\ HeadersOf(TheSingle, e.data)
                /\ ~HasKey(e.data, K_XSource)
                /\ StagesOf(TheSingle)
            /\ TheSingle.preprocess.name = "add_headers" =>
                /\ e.url = TheSingle.url
                /\ HeadersOf(TheSingle, e.data)
                /\ HasKey(e.data, K_XSource)
                /\ DictGet(e.data, K_XSource) = PyStr(<<"puller">>)
                /\ StagesOf(TheSingle)
            /\ TheSingle.preprocess.name = "pre_reroutes" =>
                /\ e.url = <<"/", "r", "/", "s">>
                /\ HeadersOf(TheSingle, e.data)
                /\ StagesOf([postprocess |-> Stage("flatten_json", <<>>),
                             output |-> Stage("sink_sends", <<>>)])

\* a preprocessor that returns a configuration of another URL, postprocessor
\* and sink, for an entry that names a postprocessor and a sink of its own,
\* and a response of status 200 with a JSON body
C21_Witness ==
    /\ SingleDone
    /\ GoodStatus
    /\ TheResponse.v.json # NoJson
    /\ TheSingle.preprocess.name = "pre_reroutes"
    /\ TheSingle.postprocess.name = "split_json_array"
    /\ TheSingle.output.name = "jsonl_file"
    /\ TransportCalls[1].url = <<"/", "r", "/", "s">>
    /\ CountOf({"sent"}) = 1

(***************************************************************************)
(* The resolution of items_path (SpecNested).                              *)
(***************************************************************************)
\* the walk along the segments of a path: a key of the current mapping
\* selects its value, an all-digit segment an element of the current
\* sequence, anything else ends the walk; an empty segment is passed over
\* when skip_empty holds
RECURSIVE PathTarget(_, _, _)
PathTarget(current, segments, skip_empty) ==
    IF segments = <<>> THEN [ok |-> TRUE, target |-> current]
    ELSE IF skip_empty /\ Head(segments) = <<>>
    THEN PathTarget(current, Tail(segments), skip_empty)
    ELSE IF current.t = "dict" /\ HasKey(current, Head(segments))
    THEN PathTarget(DictGet(current, Head(segments)), Tail(segments), skip_empty)
    ELSE IF /\ current.t = "list"
            /\ Head(segments) # <<>>
            /\ \A n \in 1..Len(Head(segments)) : Head(segments)[n] \in {Digits[d] : d \in 1..10}
            /\ ParseInt(Head(segments)) < Len(current.v)
    THEN PathTarget(current.v[ParseInt(Head(segments)) + 1], Tail(segments), skip_empty)
    ELSE [ok |-> FALSE, target |-> None]
PathResolved(body, items_path, skip_empty) ==
    IF items_path = <<>> THEN [ok |-> TRUE, target |-> body]
    ELSE PathTarget(body, Split(items_path, "."), skip_empty)
\* the parent call gave a response of status < 400 with a JSON body
ParentParsed ==
    /\ Len(TransportCalls) > 0
    /\ ParentResponse # TransportError
    /\ ParentResponse.v.status_code < 400
    /\ ParentResponse.v.json # NoJson
\* the child calls are those of the target the path leads to, and there are
\* none when the path leads nowhere
ChildCallsFollow(resolved) ==
    /\ nest.active => resolved.ok
    /\ ~resolved.ok => ChildCallUrls = <<>>
    /\ resolved.ok /\ NestedFinished =>
          ChildCallUrls = SentOf(PairsOf(SpecItems(resolved.target, TheParent.items_path),
                                         TheChildren, ParentResponse.v.json))

\* C22: items_path is resolved against the parsed parent body segment by
\* segment, empty segments passed over: a key of the current mapping selects
\* its value, an all-digit segment the element of that index of the current
\* sequence; a segment that is neither, or an index out of range, ends the
\* nested call with no child call made.
C22_ItemsPathWalk ==
    ParentParsed =>
        ChildCallsFollow(PathResolved(ParentResponse.v.json, TheParent.items_path, TRUE))

\* C22 as stated, every segment of the split path counted, an empty one too:
\* a segment that is neither a key nor an index ends the nested call with
\* no child call made.
C22_EverySegmentSelects ==
    ParentParsed =>
        ChildCallsFollow(PathResolved(ParentResponse.v.json, TheParent.items_path, FALSE))

\* items.2 on a list of two elements: the nested call ends after the parent
\* call
C22_Witness ==
    /\ NestedFinished
    /\ ParentParsed
    /\ ParentResponse.v.json = BodyItems
    /\ TheParent.items_path = K_items \o <<".", "2">>
    /\ Len(TheChildren) = 2
    /\ ChildCallUrls = <<>>

(***************************************************************************)
(* The order of the entries of a run (SpecBatch).                          *)
(***************************************************************************)
\* the place in the run of the entry a transport call belongs to: the
\* single entries in list order, then the nested entries in list order; a
\* child call of SpecBatch is told by its headers, which only the child of
\* the second nested entry adds to
EntryOf(e) ==
    IF \E k \in 1..Len(config.single_apis) : config.single_apis[k].url = e.url
    THEN CHOOSE k \in 1..Len(config.single_apis) : config.single_apis[k].url = e.url
    ELSE IF \E k \in 1..Len(config.nested_apis) :
                config.nested_apis[k].parent_api.url = e.url
    THEN Len(config.single_apis)
         + (CHOOSE k \in 1..Len(config.nested_apis) :
                config.nested_apis[k].parent_api.url = e.url)
    ELSE Len(config.single_apis) + (IF HasKey(e.data, K_XSource) THEN 2 ELSE 1)
IsParentCall(e) ==
    \E k \in 1..Len(config.nested_apis) : config.nested_apis[k].parent_api.url = e.url

\* C23: the entries are worked off one after the other: the transport calls
\* of the single entries, in list order, come before every call of a nested
\* entry, and the calls of one nested entry, the parent's first and then its
\* children's, all come before the parent call of the next nested entry.
C23_EntriesInSequence ==
    /\ \A m, n \in 1..Len(TransportCalls) :
          m < n => EntryOf(TransportCalls[m]) <= EntryOf(TransportCalls[n])
    /\ \A n \in 1..Len(TransportCalls) :
          EntryOf(TransportCalls[n]) > Len(config.single_apis)
          /\ ~IsParentCall(TransportCalls[n]) =>
            \E m \in 1..(n - 1) :
                /\ IsParentCall(TransportCalls[m])
                /\ EntryOf(TransportCalls[m]) = EntryOf(TransportCalls[n])
    /\ nest.active =>
          /\ pc.si > Len(config.single_apis)
          /\ EntryOf(TransportCalls[Len(TransportCalls)]) = Len(config.single_apis) + pc.ni

\* a run of the single entry and both nested entries with two children
\* each: seven transport calls in the order of the entries
C23_Witness ==
    /\ pc.phase = "exit0"
    /\ Len(TransportCalls) = 7
    /\ [n \in 1..7 |-> EntryOf(TransportCalls[n])] = <<1, 2, 2, 2, 3, 3, 3>>
    /\ IsParentCall(TransportCalls[2])
    /\ IsParentCall(TransportCalls[5])

(***************************************************************************)
(* The pauses between the child calls of a nested entry (SpecPause).       *)
(***************************************************************************)
\* the child whose URL template a sent URL was filled from: the children of
\* SpecPause differ in the first segment of their URLs
ChildOf(url) ==
    TheChildren[CHOOSE c \in 1..Len(TheChildren) : TheChildren[c].url[2] = url[2]]
\* the pause the specification asks for after a call of that child
PauseAfter(url) ==
    IF ChildOf(url).interval = None THEN 1
    ELSE IF ChildOf(url).interval.v > 0 THEN ChildOf(url).interval.v
    ELSE 0
\* the places in the history of the child transport calls
ChildCallPlaces ==
    {n \in DOMAIN log :
        /\ log[n].ev = "transport"
        /\ \E m \in 1..(n - 1) : log[m].ev = "transport"}
\* the pauses taken between the places a and b of the history
PausesBetween(a, b) == {n \in (a + 1)..(b - 1) : log[n].ev = "sleep"}

\* C24: between two consecutive child transport calls of a nested entry
\* there is exactly one pause, of the interval of the earlier call's child
\* (of 1 when the child sets none), and no pause at all when that interval
\* is 0 or less.
C24_PauseOfEarlierChild ==
    \A a, b \in ChildCallPlaces :
        (a < b /\ \A n \in (a + 1)..(b - 1) : n \notin ChildCallPlaces) =>
            /\ Cardinality(PausesBetween(a, b))
                 = (IF PauseAfter(log[a].url) > 0 THEN 1 ELSE 0)
            /\ \A n \in PausesBetween(a, b) :
                  log[n].data = PyInt(PauseAfter(log[a].url))

\* children /c/{id} of interval 2 and /n/{id} of interval -1, two items:
\* four child calls, a pause of 2 after each /c call and none after a /n
\* call
C24_Witness ==
    /\ NestedFinished
    /\ Len(TheChildren) = 2
    /\ TheChildren[1].interval = PyInt(2)
    /\ TheChildren[2].interval = PyInt(-1)
    /\ Cardinality(ChildCallPlaces) = 4
    /\ CountOf({"sleep"}) = 2
    /\ now = 4

(***************************************************************************)
(* The source of a placeholder's value (SpecNested).                       *)
(***************************************************************************)
\* the value the specification gives the placeholder {name} for an item:
\* the item's field, else the field of the parent body when that is a
\* mapping, else none
ValueFor(name, item, parent) ==
    IF HasKey(item, name) THEN [ok |-> TRUE, v |-> Str(DictGet(item, name))]
    ELSE IF parent.t = "dict" /\ HasKey(parent, name)
    THEN [ok |-> TRUE, v |-> Str(DictGet(parent, name))]
    ELSE [ok |-> FALSE, v |-> <<>>]
\* the segments of a URL template with every placeholder given its value
FilledSegments(template, item, parent) ==
    [n \in 1..Len(Split(template, "/")) |->
        LET seg == Split(template, "/")[n]
        IN  IF Len(seg) >= 2 /\ seg[1] = "{" /\ seg[Len(seg)] = "}"
            THEN ValueFor(SubSeq(seg, 2, Len(seg) - 1), item, parent).v
            ELSE seg]

\* C25: in a child URL that is sent, a placeholder {k} holds the item's
\* value of k whenever the item has a field k, also when the parent body
\* has one too; it holds the parent body's value only when the item has no
\* field k and the parent body is a mapping; a pair for which some
\* placeholder has neither source is not sent.
C25_ItemBeforeParent ==
    /\ last.op = "child" =>
          LET template == TheChildren[last.j].url
              sent == TransportCalls[Len(TransportCalls)].url
          IN  /\ \A name \in PlaceholderNames(template) :
                    ValueFor(name, last.item, ParentResponse.v.json).ok
              /\ Split(sent, "/")
                   = FilledSegments(template, last.item, ParentResponse.v.json)
    /\ last.op = "skip" =>
          \E name \in PlaceholderNames(TheChildren[last.j].url) :
              ~ValueFor(name, last.item, ParentResponse.v.json).ok

\* the child /o/{org}/{id} for the item {"id": 2, "org": "y"} of a parent
\* body whose own org is "x": /o/y/2 is called
C25_Witness ==
    /\ last.op = "child"
    /\ ParentResponse.v.json = BodyItems
    /\ last.item = BodyItems.v[2].v.v[2]
    /\ HasKey(last.item, K_org)
    /\ HasKey(ParentResponse.v.json, K_org)
    /\ TransportCalls[Len(TransportCalls)].url = <<"/", "o", "/", "y", "/", "2">>

(***************************************************************************)
(* Registration (SpecRegistry).                                            *)
(***************************************************************************)
RegisterOps ==
    {"register_preprocessor", "register_postprocessor", "register_output_processor"}
\* the mapping of a registry that a register_ or run_ method works on
MappingOf(reg, op) ==
    CASE op \in {"register_preprocessor", "run_preprocessor"} -> reg.preprocessors
      [] op \in {"register_postprocessor", "run_postprocessor"} -> reg.postprocessors
      [] OTHER -> reg.output_processors
\* the registry is the same for the two kinds the method does not work on
OtherKindsSame(reg, after, op) ==
    \A other \in RegisterOps \ {op} : MappingOf(after, other) = MappingOf(reg, other)

\* C26: a registration of fn under a name in one of the three kinds makes
\* fn the function of that name in that kind, whatever was registered
\* under it before, leaves every other name of the kind and every name of
\* the other two kinds as they were, and raises nothing; a run_ method
\* changes no registration, and run_preprocessor gives what the function
\* now registered under the name gives.
C26_LastRegistrationWins ==
    [][/\ last'.op \in RegisterOps =>
            /\ ~last'.exc
            /\ DOMAIN MappingOf(registry', last'.op)
                 = DOMAIN MappingOf(registry, last'.op) \cup {last'.item.v[1]}
            /\ MappingOf(registry', last'.op)[last'.item.v[1]] = last'.ret.v[1]
            /\ \A n \in DOMAIN MappingOf(registry, last'.op) \ {last'.item.v[1]} :
                  MappingOf(registry', last'.op)[n] = MappingOf(registry, last'.op)[n]
            /\ OtherKindsSame(registry, registry', last'.op)
       /\ last'.op \in RunOps => registry' = registry
       /\ last'.op = "run_preprocessor" =>
            LET m == registry.preprocessors
                name == last'.item.v[1]
            IN  last'.ret =
                  (IF name \in DOMAIN m /\ m[name] = "add_headers"
                   THEN [RunConfig EXCEPT !.headers = DictGet(RunKwargs, <<"headers">>)]
                   ELSE RunConfig)
      ]_vars

\* pre_none has just been registered as the preprocessor "a", beside the
\* preprocessor "b", while "a" names a postprocessor and an output
\* processor too
C26_Witness ==
    /\ last.op = "register_preprocessor"
    /\ last.item = PyStr(<<"a">>)
    /\ last.ret = PyStr(<<"pre_none">>)
    /\ registry.preprocessors["a"] = "pre_none"
    /\ "b" \in DOMAIN registry.preprocessors
    /\ registry.preprocessors["b"] = "add_headers"
    /\ "a" \in DOMAIN registry.postprocessors
    /\ "a" \in DOMAIN registry.output_processors

(***************************************************************************)
(* Refresh after a failure, and tokens of a short lifetime (SpecOAuth).    *)
(***************************************************************************)
\* the latest refresh request of a history that has one
HasRefresh(l) == \E n \in DOMAIN l : l[n].ev = "refresh"
LastRefresh(l) ==
    l[CHOOSE n \in DOMAIN l :
        l[n].ev = "refresh" /\ \A m \in DOMAIN l : m > n => l[m].ev # "refresh"]
\* the lifetime a token response grants
LifetimeOf(e) == IF e.data = None THEN DefaultExpiresIn ELSE e.data.v
\* the step asks the OAuth handler for a token: a get_token call, or an API
\* call that was sent
TokenAsked == IsGetToken \/ Len(TransportCalls') > Len(TransportCalls)

\* C27: one get_token call issues at most one refresh request; when the
\* request fails, the cached token and expiry are both cleared and the call
\* returns no token; and the next call after a failed refresh issues a
\* refresh request again.
C27_RefreshAgainAfterFailure ==
    [][IsGetToken =>
          /\ RefreshCount(log') <= RefreshCount(log) + 1
          /\ (RefreshCount(log') > RefreshCount(log) /\ FailedRefresh(LastRefresh(log')))
               => /\ token' = None
                  /\ token_expiry' = None
                  /\ last'.ret = None
          /\ (HasRefresh(log) /\ FailedRefresh(LastRefresh(log)))
               => RefreshCount(log') = RefreshCount(log) + 1]_vars

\* a token of lifetime 8 hours was cached, the refresh that came due later
\* failed, and the call after that one asked for a token again
C27_Witness ==
    /\ last.op = "get_token"
    /\ last.j = 3
    /\ last.i = 1
    /\ Len(log) = 3
    /\ log[1].name = "ok" /\ log[1].data = PyInt(2 * RefreshMargin)
    /\ FailedRefresh(log[2])
    /\ log[3].name = "ok"
    /\ token # None

\* C28: when the latest token response granted a lifetime of at most 4
\* hours (3600 seconds when it named none), the next get_token call, and
\* the next API call sent, issues exactly one refresh request, however
\* little time has passed.
C28_ShortLifetimeNeverCached ==
    [][(/\ TokenAsked
        /\ HasRefresh(log)
        /\ LastRefresh(log).name = "ok"
        /\ LifetimeOf(LastRefresh(log)) <= RefreshMargin)
         => RefreshCount(log') = RefreshCount(log) + 1]_vars

\* a token of lifetime exactly 4 hours was granted and, with no time
\* passed, the second call asked for a token again
C28_Witness ==
    /\ last.op = "get_token"
    /\ last.j = 2
    /\ last.i = 1
    /\ now = 0
    /\ Len(log) = 2
    /\ log[1].name = "ok" /\ log[1].data = PyInt(RefreshMargin)
    /\ log[2].name = "ok" /\ log[2].data = None
    /\ token = PyStr(<<"tok">>)

(***************************************************************************)
(* The items of a parent with a postprocessor and a sink (SpecParent).     *)
(***************************************************************************)
\* the child calls the body the transport gave for the parent asks for,
\* whatever the parent's postprocessor and output sink are
CallsOfRawBody ==
    LET resolved == PathResolved(ParentResponse.v.json, TheParent.items_path, TRUE)
    IN  IF resolved.ok
        THEN SentOf(PairsOf(SpecItems(resolved.target, TheParent.items_path),
                            TheChildren, ParentResponse.v.json))
        ELSE <<>>

\* C29: the child calls of a nested entry are those of the items found in
\* the JSON body the transport gave for the parent, in their order,
\* whatever postprocessor and output sink the parent names: what the
\* postprocessor made of the body and what the sink did with it change
\* neither the set nor the order of the child calls.
C29_ItemsFromRawBody ==
    ParentParsed =>
        /\ Len(ChildCallUrls) <= Len(CallsOfRawBody)
        /\ ChildCallUrls = SubSeq(CallsOfRawBody, 1, Len(ChildCallUrls))
        /\ NestedFinished => ChildCallUrls = CallsOfRawBody

\* the parent's postprocessor kept only the field id, of which the body has
\* none at top level, and the parent's sink wrote that to a file; the two
\* items under items were called all the same
C29_Witness ==
    /\ NestedFinished
    /\ ParentParsed
    /\ ParentResponse.v.json = BodyItems
    /\ TheParent.items_path = K_items
    /\ TheParent.postprocess.name = "filter_response"
    /\ TheParent.output.name = "jsonl_file"
    /\ \E e \in EventsOf({"sink"}) : e.data = PyDict(<<>>)
    /\ CountOf({"write"}) = 1
    /\ CountOf({"save"}) = 0
    /\ ChildCallUrls = <<(<<"/", "c", "/", "1">>), (<<"/", "c", "/", "2">>)>>

(***************************************************************************)
(* What call_single_api gives its caller (SpecPre).                        *)
(***************************************************************************)
\* C30: call_single_api never lets an exception reach its caller: for every
\* entry and every behaviour of the registered processors, a preprocessor
\* that returns no mapping and a method that is no string included, it
\* returns the transport's response or None, and the loop of the run goes
\* on to its end.
C30_NeverPropagates ==
    /\ pc.phase # "exit1"
    /\ last.op = "call_single_api" =>
          /\ ~last.exc
          /\ \/ last.ret = None
             \/ Len(TransportCalls) = 1 /\ last.ret = TransportCalls[1].resp

=========================================================================
